---------------------------- MODULE Spec2Model ----------------------------
(***************************************************************************)
(* A model of the request-intake pipeline of sephiraorion:                 *)
(*   - SecurityGuard (src/backend/core/security.py): the per-user query    *)
(*     log, the block map and validate_query with its nine checks;         *)
(*   - the validators of src/backend/utils/validators.py;                  *)
(*   - RAGEngine.query (src/backend/core/rag_engine.py): gate, retriever,   *)
(*     reranker, context assembly, generator, size guard.                  *)
(*                                                                         *)
(* A query string is modelled as the sequence of its whitespace-separated  *)
(* words (the string is the words joined by single spaces); the regular    *)
(* expressions of the source are translated to patterns over words.  Time  *)
(* is in whole seconds.                                                    *)
(***************************************************************************)
EXTENDS Integers, Sequences, FiniteSets, TLC

(***************************************************************************)
(* Queries                                                                 *)
(***************************************************************************)

\* A str query, given by its words.
Str(ws) == [type |-> "str", words |-> ws]

\* validate_query called with None instead of a str.
NoneQuery == [type |-> "NoneType", words |-> <<>>]

\* validate_query called with a bytes object (b"sentiment") instead of a str.
BytesQuery == [type |-> "bytes", words |-> <<"sentiment">>]

\* The word that stands for "a" * 1001 (test_query_too_long) and the one for "a" * 1000.
WordA1001 == "a*1001"
WordA1000 == "a*1000"
\* The words that stand for "a" * 47, "a" * 40 and "a" * 41.
WordA47 == "a*47"
WordA40 == "a*40"
WordA41 == "a*41"

\* len(word) for every word of the vocabulary.
WordLenTable ==
    (WordA1001 :> 1001) @@ (WordA1000 :> 1000) @@
    (WordA47 :> 47) @@ (WordA40 :> 40) @@ (WordA41 :> 41) @@
    ("sentiment" :> 9 @@ "france" :> 6 @@ "violation" :> 9 @@ "report" :> 6
    @@ "jailbreak" :> 9 @@ "drop" :> 4 @@ "table" :> 5 @@ "eval" :> 4 @@
    "password" :> 8 @@ "dump" :> 4 @@ "data" :> 4 @@ "list" :> 4 @@ "all"
    :> 3 @@ "you" :> 3 @@ "are" :> 3 @@ "now" :> 3 @@ "trend" :> 5 @@
    "germany" :> 7 @@ "France" :> 6 @@ "Sentiment" :> 9 @@ "a" :> 1 @@
    "--" :> 2 @@ "italy" :> 5 @@ "spain" :> 5 @@ "poland" :> 6 @@ "japan" :> 5
    @@ "brazil" :> 6 @@ "canada" :> 6 @@ "india" :> 5 @@ "kenya" :> 5 @@
    "chile" :> 5 @@ "forecast" :> 8 @@ "correlation" :> 11 @@ "spike" :> 5 @@
    "will" :> 4 @@ "be" :> 2 @@ "trends" :> 6)

Vocabulary == DOMAIN WordLenTable

WordLen(w) == WordLenTable[w]

RECURSIVE SumWordLen(_)
SumWordLen(ws) == IF ws = <<>> THEN 0 ELSE WordLen(Head(ws)) + SumWordLen(Tail(ws))

\* len(query): the words joined by single spaces.
QueryLen(q) == IF q.words = <<>> THEN 0 ELSE SumWordLen(q.words) + Len(q.words) - 1

\* str.lower() on a word: the vocabulary's words with upper-case letters.
LowerTable == ("France" :> "france") @@ ("Sentiment" :> "sentiment")

Lower(w) == IF w \in DOMAIN LowerTable THEN LowerTable[w] ELSE w

\* query.lower() as a word sequence.
LowerWords(ws) == [i \in 1..Len(ws) |-> Lower(ws[i])]

(***************************************************************************)
(* Regular expressions as patterns over words                              *)
(*                                                                         *)
(* A pattern is a sequence of slots; a slot is the set of words that may   *)
(* stand there, and may be optional ("(all\s+)?").  \s+ between two tokens  *)
(* of a regular expression is the gap between two words.  re.search finds  *)
(* a match starting at any word.  The words of the vocabulary contain a    *)
(* token of a pattern only as the whole word.                              *)
(***************************************************************************)
W(S) == [alts |-> S, opt |-> FALSE]
O(S) == [alts |-> S, opt |-> TRUE]

RECURSIVE MatchAt(_, _, _)
MatchAt(p, ws, i) ==
    IF p = <<>> THEN TRUE
    ELSE \/ i <= Len(ws) /\ ws[i] \in Head(p).alts /\ MatchAt(Tail(p), ws, i + 1)
         \/ Head(p).opt /\ MatchAt(Tail(p), ws, i)

\* re.search(pattern, text) for one pattern.
Search(p, ws) == \E i \in 1..Len(ws) : MatchAt(p, ws, i)

\* any(re.search(p, text) for p in patterns)
SearchAny(ps, ws) == \E k \in 1..Len(ps) : Search(ps[k], ws)

Earlier == {"previous", "prior", "above", "earlier"}
Instruction == {"instruction", "instructions"}
Rule == {"rule", "rules"}
Prompt == {"prompt", "prompts"}
\* \d+
Digits == {"1", "2", "10", "1970", "2025"}
\* \d+ at the end of an expression: the words that begin with digits.
DigitsAhead == Digits \cup {"1=1"}
\* The words that end with 'system', that begin with 'you', that end with
\* 'act', that begin with 'be', and that begin with 'data'.
EndSystem == {"system", "os.system"}
YouAhead == {"you", "your"}
EndAct == {"act", "extract"}
BeAhead == {"be", "between"}
DataAhead == {"data", "database"}

INJECTION_PATTERNS == <<
    <<W({"ignore"}), O({"all"}), W(Earlier), W(Instruction)>>,
    <<W({"disregard"}), O({"all"}), W(Earlier)>>,
    <<W({"forget"}), O({"all"}), W(Earlier)>>,
    <<W({"you"}), W({"are"}), W({"now"})>>,
    <<W({"your"}), W({"new"}), W({"role", "instruction", "task"}), W({"is"})>>,
    <<W(EndSystem), W(Prompt)>>,
    <<W({"show"}), O({"me"}), W({"your", "the"}), W(Prompt \cup Instruction \cup {"system"})>>,
    <<W({"what"}), W({"is", "are"}), W({"your"}), W(Instruction \cup Rule \cup Prompt)>>,
    <<W({"reveal"}), W({"your"}), W(Instruction \cup Rule \cup Prompt)>>,
    <<W({"bypass"}), W({"security", "filter", "filters", "restriction", "restrictions"})>>,
    <<W({"jailbreak"})>>,
    <<W({"dan"}), W({"mode"})>>,
    <<W({"developer"}), W({"mode"})>>,
    <<W({"admin"}), W({"mode"})>>,
    <<W(EndAct), W({"as"}), W({"if"})>>,
    <<W({"pretend"}), W(YouAhead)>>,
    <<W({"pretend"}), W({"to"}), W(BeAhead)>>,
    <<W({"roleplay"}), W({"as"})>> >>

\* The words that hold one of the delimiters '---', '===', '***', '###'.
DelimiterWords == {"---", "===", "***", "###"}
\* The words that hold one of 'instruction', 'system', 'prompt', 'ignore'.
DelimiterKeywords == Instruction \cup Prompt \cup EndSystem \cup {"ignore"}
\* The words with a character outside [A-Za-z0-9+/].
NonBase64Words == {"--", "---", "===", "***", "###", ";", "1=1", "os.system"}
Base64RunLen == 50

\* SecurityGuard._detect_prompt_injection
DetectPromptInjection(q) ==
    \/ SearchAny(INJECTION_PATTERNS, LowerWords(q.words))
    \/ /\ \E i \in 1..Len(q.words) : q.words[i] \in DelimiterWords
       /\ \E i \in 1..Len(q.words) : Lower(q.words[i]) \in DelimiterKeywords
    \/ \E i \in 1..Len(q.words) :
          /\ q.words[i] \notin NonBase64Words
          /\ WordLen(q.words[i]) >= Base64RunLen

SENSITIVE_PATTERNS == <<
    <<W({"apikey", "api_key"})>>, <<W({"api"}), W({"key", "keys"})>>,
    <<W({"secretkey", "secret_key"})>>, <<W({"secret"}), W({"key", "keys"})>>,
    <<W({"password", "passwords"})>>,
    <<W({"token", "tokens"})>>,
    <<W({"credential", "credentials"})>>,
    <<W({"authtoken", "auth_token"})>>, <<W({"auth"}), W({"token", "tokens"})>> >>

\* SecurityGuard._detect_sensitive_info_request
DetectSensitiveInfoRequest(q) == SearchAny(SENSITIVE_PATTERNS, LowerWords(q.words))

Whole == {"all", "entire", "complete", "full"}
DATA_THEFT_PATTERNS == <<
    <<W({"export"}), W(Whole), W({"data", "database", "records"})>>,
    <<W({"download"}), W(Whole), W({"data", "database"})>>,
    <<W({"give"}), W({"me"}), W(Whole \cup {"every"}), W(DataAhead \cup {"records", "entries"})>>,
    <<W({"show"}), W(Whole \cup {"every"}), W(DataAhead \cup {"records", "entries"})>>,
    <<W({"dump"}), W({"data", "database", "table", "records"})>>,
    <<W({"extract"}), W({"all", "entire", "complete"}), W(DataAhead \cup {"records"})>> >>

\* SecurityGuard._detect_data_theft
DetectDataTheft(q) == SearchAny(DATA_THEFT_PATTERNS, LowerWords(q.words))

sql_patterns == <<
    <<W({"union"}), W({"select"})>>, <<W({"drop"}), W({"table"})>>,
    <<W({"delete"}), W({"from"})>>, <<W({"insert"}), W({"into"})>>,
    <<W({"update"}), W({"set"})>>,
    <<W({"--", "---", ";", "/*", "*/", "xp_", "sp_"})>>,
    <<W({"or", "and"}), W({"1=1"})>>,
    <<W({"or", "and"}), W(Digits), W({"="}), W(DigitsAhead)>> >>

\* validators.contains_sql_injection
contains_sql_injection(q) == SearchAny(sql_patterns, LowerWords(q.words))

code_patterns == <<
    <<W({"eval", "exec", "compile", "__import__", "subprocess", "os.system"})>>,
    <<W({"exec(", "eval(", "__builtins__", "globals(", "locals("})>>,
    <<W({"pickle", "marshal", "importlib"})>> >>

\* validators.contains_code_execution_attempts
contains_code_execution_attempts(q) == SearchAny(code_patterns, LowerWords(q.words))

enumeration_patterns == <<
    <<W({"give"}), W({"me"}), W({"all"})>>, <<W({"list"}), W({"all"})>>,
    <<W({"show"}), W({"all"})>>, <<W({"dump"}), W({"all"})>>,
    <<W({"every"}), W({"record", "records"})>>, <<W({"every"}), W({"entry"})>>,
    <<W({"all"}), W({"records"})>>, <<W({"all"}), W({"entries"})>>,
    <<W({"from"}), W(Digits), W({"to"}), W(DigitsAhead)>>,
    <<W({"between"}), W(Digits), W({"and"}), W(DigitsAhead)>> >>

\* validators.is_enumeration_pattern
is_enumeration_pattern(q) == SearchAny(enumeration_patterns, LowerWords(q.words))

MinQueryLength == 1
MaxQueryLength == 1000

\* validators.is_valid_query_length: "OK", or the message of the failure.
\* is_valid_query_length that refuses a query of the maximum length.
is_valid_query_length_exclusive(q) ==
    IF QueryLen(q) < MinQueryLength THEN "Query too short (minimum 1 characters)"
    ELSE IF QueryLen(q) >= MaxQueryLength THEN "Query too long (maximum 1000 characters)"
    ELSE "OK"

\* validators.is_valid_query_length: "OK" or the message of the refusal.
is_valid_query_length(q) ==
    IF QueryLen(q) < MinQueryLength THEN "Query too short (minimum 1 characters)"
    ELSE IF QueryLen(q) > MaxQueryLength THEN "Query too long (maximum 1000 characters)"
    ELSE "OK"

(***************************************************************************)
(* The inputs of the model                                                 *)
(***************************************************************************)
QSentiment == Str(<<"sentiment", "france">>)
QViolation == Str(<<"violation", "report">>)
QEmpty == Str(<<>>)
QTooLong == Str(<<WordA1001>>)
\* Queries that fail every pattern check from one check of CheckOrder on.
QFromInjection == Str(<<"jailbreak", "drop", "table", "eval", "password", "dump", "data", "list", "all">>)
QFromSQL == Str(<<"drop", "table", "eval", "password", "dump", "data", "list", "all">>)
QFromCode == Str(<<"eval", "password", "dump", "data", "list", "all">>)
QFromSensitive == Str(<<"password", "dump", "data", "list", "all">>)
QFromDataTheft == Str(<<"dump", "data", "list", "all">>)
QEnumeration == Str(<<"list", "all">>)
\* test_prompt_injection_you_are_now, without the words no pattern reads.
QYouAreNow == Str(<<"you", "are", "now", "dump", "all", "data">>)

\* Queries at the length boundaries: "a"; twenty words "a" * 47 and one word
\* "a" * 40 (1000 characters); "a" * 1000; twenty words "a" * 47 and one word
\* "a" * 41 (1001 characters).
QOneChar == Str(<<"a">>)
QThousand == Str([i \in 1..21 |-> IF i < 21 THEN WordA47 ELSE WordA40])
QThousandA == Str(<<WordA1000>>)
QThousandOne == Str([i \in 1..21 |-> IF i < 21 THEN WordA47 ELSE WordA41])
BoundaryQueries == {QOneChar, QThousand, QThousandA, QThousandOne}

\* A client that never repeats itself within eleven queries: its n-th query is
\* "sentiment <country>"; any two of the eleven share one word of three.
Countries == <<"france", "germany", "italy", "spain", "poland", "japan", "brazil",
               "canada", "india", "kenya", "chile">>
DistinctQuery(n) == Str(<<"sentiment", Countries[((n - 1) % Len(Countries)) + 1]>>)
DistinctQueries == {DistinctQuery(n) : n \in 1..Len(Countries)}

\* Queries for _classify_query: one keyword of each category alone, two of
\* them in either order, one of each category in reverse priority order,
\* "will be" together and apart, a word that contains a keyword, and a
\* query with no keyword.
ClassKeywords == {"forecast", "trend", "correlation", "spike"}
ClassQueries ==
    {Str(<<a>>) : a \in ClassKeywords}
    \cup {Str(<<p[1], p[2]>>) :
             p \in {p \in ClassKeywords \X ClassKeywords : p[1] # p[2]}}
    \cup {Str(<<"spike", "correlation", "trend", "forecast">>),
          Str(<<"will", "be", "trend">>), Str(<<"will", "trend", "be">>),
          Str(<<"trends", "spike">>), QSentiment}

BenignQueries == {QSentiment, QViolation}
DeniedQueries == {QEmpty, QTooLong, QFromInjection, QFromSQL, QFromCode, QFromSensitive,
                  QFromDataTheft, QEnumeration}
MalformedQueries == {NoneQuery, BytesQuery}
Queries == BenignQueries \cup DeniedQueries \cup MalformedQueries

\* The verdicts of the pattern checks on every str query of the model, computed
\* once: the checks are pure functions of the query.
PatternVerdicts ==
    [q \in BenignQueries \cup DeniedQueries \cup {QYouAreNow} \cup DistinctQueries
             \cup BoundaryQueries \cup ClassQueries |->
        [injection |-> DetectPromptInjection(q),
         sql |-> contains_sql_injection(q),
         code |-> contains_code_execution_attempts(q),
         sensitive |-> DetectSensitiveInfoRequest(q),
         data_theft |-> DetectDataTheft(q),
         enumeration |-> is_enumeration_pattern(q)]]

(***************************************************************************)
(* SecurityGuard                                                           *)
(***************************************************************************)

\* Python's None.
None == "None"

\* The reasons validate_query returns.
ReasonOK == "OK"
ReasonBlocked == "User temporarily blocked for suspicious activity"
ReasonTooShort == "Query too short (minimum 1 characters)"
ReasonTooLong == "Query too long (maximum 1000 characters)"
ReasonInjection == "Query contains suspicious patterns that may be attempting prompt injection"
ReasonSQL == "Query contains SQL injection patterns"
ReasonCode == "Query contains code execution patterns"
ReasonSensitive == "Query requests sensitive system information"
ReasonDataTheft ==
    "This query appears to be attempting to extract proprietary sentiment data. Please ask specific analytical questions instead."
ReasonBulk ==
    "Query appears to be attempting bulk data extraction. Sephira AI is designed to provide insights and analysis, not raw data exports. Please ask analytical questions."
ReasonRate == "Rate limit exceeded. Please try again later."
\* validate_query did not return: the exception it let through.
ReasonTypeError == "TypeError"
\* The exception of a dict access to a key that is not there.
ReasonKeyError == "KeyError"

WarnSimilar == "Multiple similar queries detected"
WarnFrequency == "High query frequency detected"

\* Settings, with the defaults of config.py.
DefaultMaxQueriesPerMinute == 10
DefaultMaxQueriesPerHour == 100
DefaultSettings ==
    [max_queries_per_minute |-> DefaultMaxQueriesPerMinute,
     max_queries_per_hour |-> DefaultMaxQueriesPerHour,
     rate_limit_enabled |-> TRUE]

\* SecurityGuard._hash_user_id: sha256(user_id).hexdigest()[:16], for the
\* user ids of the model.
HashTable == ("alice" :> "2bd806c97f0e00af") @@ ("bob" :> "81b637d8fcd2c6da")
hash_user_id(user_id) == HashTable[user_id]
UserIds == DOMAIN HashTable
UserKeys == {HashTable[u] : u \in UserIds}

\* seq[-n:]
LastN(seq, n) == IF Len(seq) <= n THEN seq ELSE SubSeq(seq, Len(seq) - n + 1, Len(seq))

WordSet(ws) == {Lower(ws[i]) : i \in 1..Len(ws)}

\* SecurityGuard._calculate_similarity, as the fraction num / den.
calculate_similarity(query1, query2) ==
    LET words1 == WordSet(query1.words)
        words2 == WordSet(query2.words)
    IN  IF words1 = {} \/ words2 = {} THEN [num |-> 0, den |-> 1]
        ELSE [num |-> Cardinality(words1 \cap words2),
              den |-> Cardinality(words1 \cup words2)]

RecentWindow == 10
SimilarWindow == 5
SimilarLimit == 3
\* similarity > 0.8, as 10 * num > 8 * den
SimilarityAbove(sim) == 10 * sim.num > 8 * sim.den
RapidFireSeconds == 30

\* _detect_bulk_extraction that warns of similar queries without denying.
detect_bulk_extraction_warns(q, log) ==
    LET recent_queries == LastN(log, RecentWindow)
        last5 == LastN(recent_queries, SimilarWindow)
        similar_count ==
            Cardinality({i \in 1..Len(last5) :
                SimilarityAbove(calculate_similarity(q, last5[i].query))})
        time_span == recent_queries[Len(recent_queries)].ts - recent_queries[1].ts
    IN  IF PatternVerdicts[q].enumeration THEN [is_bulk |-> TRUE, warning |-> None]
        ELSE IF Len(recent_queries) >= SimilarWindow /\ similar_count >= SimilarLimit
             THEN [is_bulk |-> TRUE, warning |-> WarnSimilar]
        ELSE IF Len(recent_queries) >= RecentWindow /\ time_span < RapidFireSeconds
             THEN [is_bulk |-> TRUE, warning |-> WarnFrequency]
        ELSE IF similar_count >= 1 THEN [is_bulk |-> FALSE, warning |-> WarnSimilar]
        ELSE [is_bulk |-> FALSE, warning |-> None]

\* SecurityGuard._detect_bulk_extraction: (is_bulk, warning).
detect_bulk_extraction(q, log) ==
    LET recent_queries == LastN(log, RecentWindow)
        last5 == LastN(recent_queries, SimilarWindow)
        similar_count ==
            Cardinality({i \in 1..Len(last5) :
                SimilarityAbove(calculate_similarity(q, last5[i].query))})
        time_span == recent_queries[Len(recent_queries)].ts - recent_queries[1].ts
    IN  IF PatternVerdicts[q].enumeration THEN [is_bulk |-> TRUE, warning |-> None]
        ELSE IF Len(recent_queries) >= SimilarWindow /\ similar_count >= SimilarLimit
             THEN [is_bulk |-> TRUE, warning |-> WarnSimilar]
        ELSE IF Len(recent_queries) >= RecentWindow /\ time_span < RapidFireSeconds
             THEN [is_bulk |-> TRUE, warning |-> WarnFrequency]
        ELSE [is_bulk |-> FALSE, warning |-> None]

OneMinute == 60
OneHour == 3600

\* _check_rate_limit that does not read rate_limit_enabled.
check_rate_limit_always(log, t, cfg) ==
    LET queries_last_minute == Cardinality({i \in 1..Len(log) : log[i].ts > t - OneMinute})
        queries_last_hour == Cardinality({i \in 1..Len(log) : log[i].ts > t - OneHour})
    IN  IF queries_last_minute >= cfg.max_queries_per_minute THEN FALSE
        ELSE IF queries_last_hour >= cfg.max_queries_per_hour THEN FALSE
        ELSE TRUE

\* SecurityGuard._check_rate_limit
check_rate_limit(log, t, cfg) ==
    LET queries_last_minute == Cardinality({i \in 1..Len(log) : log[i].ts > t - OneMinute})
        queries_last_hour == Cardinality({i \in 1..Len(log) : log[i].ts > t - OneHour})
    IN  IF ~cfg.rate_limit_enabled THEN TRUE
        ELSE IF queries_last_minute >= cfg.max_queries_per_minute THEN FALSE
        ELSE IF queries_last_hour >= cfg.max_queries_per_hour THEN FALSE
        ELSE TRUE

HistoryCap == 100

\* _record_query that keeps the first 100 entries instead of the last.
record_query_keep_oldest(log, q, t) ==
    LET appended == Append(log, [query |-> q, ts |-> t])
    IN  IF Len(appended) <= HistoryCap THEN appended ELSE SubSeq(appended, 1, HistoryCap)

\* SecurityGuard._record_query: the user's log after the append.
record_query(log, q, t) == LastN(Append(log, [query |-> q, ts |-> t]), HistoryCap)

\* The words that hold 'violation' or 'blocked'.
ViolationWords == {"violation", "violations", "blocked"}
ViolationLimit == 3
BlockSeconds == OneHour

\* SecurityGuard._record_violation: blocked_users after the call.
record_violation(blocked, log, key, t) ==
    LET recent == LastN(log, RecentWindow)
        violation_count ==
            Cardinality({i \in 1..Len(recent) :
                \E j \in 1..Len(recent[i].query.words) :
                    Lower(recent[i].query.words[j]) \in ViolationWords})
    IN  IF violation_count >= ViolationLimit
        THEN (key :> t + BlockSeconds) @@ blocked
        ELSE blocked

\* is_blocked with the comparison turned round.
is_blocked_reversed(blocked, key, t) == key \in DOMAIN blocked /\ t > blocked[key]

\* is_blocked with the expiry instant itself still blocked.
is_blocked_inclusive(blocked, key, t) == key \in DOMAIN blocked /\ t <= blocked[key]

\* is_blocked reading the block entry of any user.
is_blocked_any_user(blocked, key, t) == \E k \in DOMAIN blocked : t < blocked[k]

\* validate_query's test of a block entry: datetime.now() < block_time
\* A guard that never finds a user blocked.
is_blocked_never(blocked, key, t) == FALSE

is_blocked(blocked, key, t) == key \in DOMAIN blocked /\ t < blocked[key]

\* del self.blocked_users[key]
Unblock(blocked, key) == [k \in DOMAIN blocked \ {key} |-> blocked[k]]

\* A denial that leaves an entry in the log.
Deny_logged(reason, check, blocked, log) ==
    [outcome |-> "deny", reason |-> reason, warning |-> None, check |-> check,
     blocked |-> blocked, log |-> Append(log, [query |-> NoneQuery, ts |-> 0])]

Deny(reason, check, blocked, log) ==
    [outcome |-> "deny", reason |-> reason, warning |-> None, check |-> check,
     blocked |-> blocked, log |-> log]

Raise(check, blocked, log) ==
    [outcome |-> "raise", reason |-> ReasonTypeError, warning |-> None, check |-> check,
     blocked |-> blocked, log |-> log]

\* validate_query with a blocked reason that tells whether a full hour remains.
validate_query_remaining_time(q, key, blocked, log, t, cfg) ==
    LET unblocked == IF key \in DOMAIN blocked THEN Unblock(blocked, key) ELSE blocked
        length_msg == is_valid_query_length(q)
        bulk == detect_bulk_extraction(q, log)
    IN  IF is_blocked(blocked, key, t)
            THEN Deny(IF blocked[key] - t < BlockSeconds THEN "Access temporarily blocked for less than an hour"
                      ELSE ReasonBlocked, "block", blocked, log)
        ELSE IF q.type = "NoneType"
            THEN Raise("length", unblocked, log)
        ELSE IF length_msg # "OK"
            THEN Deny(length_msg, "length", unblocked, log)
        ELSE IF q.type = "bytes"
            THEN Raise("injection", unblocked, log)
        ELSE IF PatternVerdicts[q].injection
            THEN Deny(ReasonInjection, "injection", record_violation(unblocked, log, key, t), log)
        ELSE IF PatternVerdicts[q].sql
            THEN Deny(ReasonSQL, "sql", record_violation(unblocked, log, key, t), log)
        ELSE IF PatternVerdicts[q].code
            THEN Deny(ReasonCode, "code", record_violation(unblocked, log, key, t), log)
        ELSE IF PatternVerdicts[q].sensitive
            THEN Deny(ReasonSensitive, "sensitive", unblocked, log)
        ELSE IF PatternVerdicts[q].data_theft
            THEN Deny(ReasonDataTheft, "data_theft", record_violation(unblocked, log, key, t), log)
        ELSE IF bulk.is_bulk
            THEN Deny(ReasonBulk, "bulk", record_violation(unblocked, log, key, t), log)
        ELSE IF ~check_rate_limit(log, t, cfg)
            THEN Deny(ReasonRate, "rate", unblocked, log)
        ELSE [outcome |-> "allow", reason |-> ReasonOK, warning |-> bulk.warning,
              check |-> "none", blocked |-> unblocked, log |-> record_query(log, q, t)]

\* validate_query with a sensitive-info denial recorded as a violation.
validate_query_sensitive_counts(q, key, blocked, log, t, cfg) ==
    LET unblocked == IF key \in DOMAIN blocked THEN Unblock(blocked, key) ELSE blocked
        length_msg == is_valid_query_length(q)
        bulk == detect_bulk_extraction(q, log)
    IN  IF is_blocked(blocked, key, t)
            THEN Deny(ReasonBlocked, "block", blocked, log)
        ELSE IF q.type = "NoneType"
            THEN Raise("length", unblocked, log)
        ELSE IF length_msg # "OK"
            THEN Deny(length_msg, "length", unblocked, log)
        ELSE IF q.type = "bytes"
            THEN Raise("injection", unblocked, log)
        ELSE IF PatternVerdicts[q].injection
            THEN Deny(ReasonInjection, "injection", record_violation(unblocked, log, key, t), log)
        ELSE IF PatternVerdicts[q].sql
            THEN Deny(ReasonSQL, "sql", record_violation(unblocked, log, key, t), log)
        ELSE IF PatternVerdicts[q].code
            THEN Deny(ReasonCode, "code", record_violation(unblocked, log, key, t), log)
        ELSE IF PatternVerdicts[q].sensitive
            THEN Deny(ReasonSensitive, "sensitive", record_violation(unblocked, log, key, t), log)
        ELSE IF PatternVerdicts[q].data_theft
            THEN Deny(ReasonDataTheft, "data_theft", record_violation(unblocked, log, key, t), log)
        ELSE IF bulk.is_bulk
            THEN Deny(ReasonBulk, "bulk", record_violation(unblocked, log, key, t), log)
        ELSE IF ~check_rate_limit(log, t, cfg)
            THEN Deny(ReasonRate, "rate", unblocked, log)
        ELSE [outcome |-> "allow", reason |-> ReasonOK, warning |-> bulk.warning,
              check |-> "none", blocked |-> unblocked, log |-> record_query(log, q, t)]

\* validate_query with the data-theft check before the sensitive-info check.
validate_query_theft_first(q, key, blocked, log, t, cfg) ==
    LET unblocked == IF key \in DOMAIN blocked THEN Unblock(blocked, key) ELSE blocked
        length_msg == is_valid_query_length(q)
        bulk == detect_bulk_extraction(q, log)
    IN  IF is_blocked(blocked, key, t)
            THEN Deny(ReasonBlocked, "block", blocked, log)
        ELSE IF q.type = "NoneType"
            THEN Raise("length", unblocked, log)
        ELSE IF length_msg # "OK"
            THEN Deny(length_msg, "length", unblocked, log)
        ELSE IF q.type = "bytes"
            THEN Raise("injection", unblocked, log)
        ELSE IF PatternVerdicts[q].injection
            THEN Deny(ReasonInjection, "injection", record_violation(unblocked, log, key, t), log)
        ELSE IF PatternVerdicts[q].sql
            THEN Deny(ReasonSQL, "sql", record_violation(unblocked, log, key, t), log)
        ELSE IF PatternVerdicts[q].code
            THEN Deny(ReasonCode, "code", record_violation(unblocked, log, key, t), log)
        ELSE IF PatternVerdicts[q].data_theft
            THEN Deny(ReasonDataTheft, "data_theft", record_violation(unblocked, log, key, t), log)
        ELSE IF PatternVerdicts[q].sensitive
            THEN Deny(ReasonSensitive, "sensitive", unblocked, log)
        ELSE IF bulk.is_bulk
            THEN Deny(ReasonBulk, "bulk", record_violation(unblocked, log, key, t), log)
        ELSE IF ~check_rate_limit(log, t, cfg)
            THEN Deny(ReasonRate, "rate", unblocked, log)
        ELSE [outcome |-> "allow", reason |-> ReasonOK, warning |-> bulk.warning,
              check |-> "none", blocked |-> unblocked, log |-> record_query(log, q, t)]

\* SecurityGuard.validate_query for the user key `key` at time t: the outcome
\* ("allow", "deny", or "raise" when an exception leaves the call), the reason
\* and warning returned, the check that ended the call, and blocked_users and
\* the user's log as the call leaves them.
validate_query(q, key, blocked, log, t, cfg) ==
    LET unblocked == IF key \in DOMAIN blocked THEN Unblock(blocked, key) ELSE blocked
        length_msg == is_valid_query_length(q)
        bulk == detect_bulk_extraction(q, log)
    IN  IF is_blocked(blocked, key, t)
            THEN Deny(ReasonBlocked, "block", blocked, log)
        ELSE IF q.type = "NoneType"
            THEN Raise("length", unblocked, log)
        ELSE IF length_msg # "OK"
            THEN Deny(length_msg, "length", unblocked, log)
        ELSE IF q.type = "bytes"
            THEN Raise("injection", unblocked, log)
        ELSE IF PatternVerdicts[q].injection
            THEN Deny(ReasonInjection, "injection", record_violation(unblocked, log, key, t), log)
        ELSE IF PatternVerdicts[q].sql
            THEN Deny(ReasonSQL, "sql", record_violation(unblocked, log, key, t), log)
        ELSE IF PatternVerdicts[q].code
            THEN Deny(ReasonCode, "code", record_violation(unblocked, log, key, t), log)
        ELSE IF PatternVerdicts[q].sensitive
            THEN Deny(ReasonSensitive, "sensitive", unblocked, log)
        ELSE IF PatternVerdicts[q].data_theft
            THEN Deny(ReasonDataTheft, "data_theft", record_violation(unblocked, log, key, t), log)
        ELSE IF bulk.is_bulk
            THEN Deny(ReasonBulk, "bulk", record_violation(unblocked, log, key, t), log)
        ELSE IF ~check_rate_limit(log, t, cfg)
            THEN Deny(ReasonRate, "rate", unblocked, log)
        ELSE [outcome |-> "allow", reason |-> ReasonOK, warning |-> bulk.warning,
              check |-> "none", blocked |-> unblocked, log |-> record_query(log, q, t)]

(***************************************************************************)
(* RAGEngine                                                               *)
(***************************************************************************)

\* A retrieved chunk: its id, metadata.get('type', 'unknown') and its distance
\* in hundredths.
Chunk(id, type, distance) == [id |-> id, type |-> type, distance |-> distance]

\* type_boost with the boosts of monthly and anomaly exchanged.
TypeBoost_exchanged(type) ==
    CASE type = "country_summary" -> 120
      [] type = "anomaly" -> 110
      [] type = "monthly" -> 115
      [] type = "weekly" -> 105
      [] OTHER -> 100

\* type_boost of _rerank_chunks, in hundredths.
TypeBoost(type) ==
    CASE type = "country_summary" -> 120
      [] type = "anomaly" -> 115
      [] type = "monthly" -> 110
      [] type = "weekly" -> 105
      [] OTHER -> 100

\* (1 - distance) * type_boost in the rationals, in ten-thousandths.
ExactScore(c) == (100 - c.distance) * TypeBoost(c.type)

\* What the binary floating point arithmetic of score = 1.0 - distance and
\* score *= type_boost adds to ExactScore: the double the code computes minus
\* the exact product, in units of 2^-58 and rounded, for every type_boost and
\* for the distances 0.00, 0.01, ..., 2.00 (the double nearest to each); the
\* entry of distance d is at index d + 1.  Two doubles differ by 2^-53 or more.
FloatErrorTable ==
    (120 :> <<
        -13, -16, -19, -22, -25, -28, -31, -34, 27, 24, 20, 17, 14, 11, 8, 5, 2, -33,
        -4, -7, -10, -13, -16, -19, -23, -26, 3, 0, -3, -6, -9, -12, -15, -18, -21, 8,
        5, 2, -2, -5, -8, 21, 18, 15, 12, 9, 6, 3, 0, -3, -6, -9, -13, -16, -19, -22,
        -25, 4, 1, -2, -5, -8, -11, 2, -1, -4, -8, -11, -14, 15, 12, 9, 6, 3, 0, -3,
        -6, -9, -12, -15, -19, -22, 15, 12, 9, 6, 3, 0, -3, -6, -9, -12, -15, -18, 18,
        15, 12, 9, 6, 3, 0, -3, -6, -9, -12, -15, -18, -22, -25, -28, -31, -34, -37,
        40, 37, 34, 31, 28, 25, 22, 19, 15, 12, 9, 6, 3, 0, -3, -6, -9, -12, -15, -18,
        -21, -24, -28, -31, -34, 43, 40, 37, 34, 31, 28, 25, 22, 19, 16, 13, 9, 6, 3,
        0, -3, -6, -9, -12, -15, -18, -21, -24, -27, -30, 30, 27, 24, 21, 18, 15, 12,
        9, 6, 3, 0, -3, 26, 23, 19, 16, 13, 10, 7, 4, 1, -2, -5, -8, -11, 50, 47, 44,
        40, 37, 34, 31, 28, 25, 22, 19, 16, 13 >>) @@
    (115 :> <<
        -26, -45, 1, -18, -37, -56, -11, -30, 15, -4, -23, -42, 3, -16, -35, -22, -41,
        -28, -15, -2, -20, -7, -26, -13, -32, -19, -6, -25, -12, -31, -18, -37, -24,
        -43, -30, -17, -4, -23, -9, -28, -15, -2, 11, -8, 5, -14, -1, -20, -7, -26,
        -13, 0, -19, -6, -25, -12, -30, -1, -4, -7, -10, -13, -16, -3, -6, -9, -12,
        -15, -18, 11, 8, 5, 2, -1, -3, -6, -9, -12, -15, -18, -21, -24, 13, 10, 7, 4,
        1, -2, -5, -8, -11, -14, -16, -19, 18, 13, 10, 9, 5, 2, 0, -2, -5, -9, -10,
        -13, -18, -21, -20, -22, -25, -32, -35, 42, 39, 36, 33, 30, 27, 24, 21, 18,
        15, 12, 9, 6, 3, 1, -2, -5, -8, -11, -14, -17, -20, -23, -26, -29, 48, 45, 42,
        39, 36, 33, 30, 12, 25, 6, 19, 0, 13, 26, 7, 20, 1, 14, -5, 8, -11, 2, -17,
        -4, -23, 55, 36, 49, 30, 43, 24, 37, 18, 31, 12, 25, 6, 19, 32, 13, 26, 7, 20,
        2, 15, -4, 9, -10, 3, 16, 61, 42, 23, 68, 49, 30, 11, 56, 37, 18, -1, 45, 26 >>) @@
    (110 :> <<
        26, -9, 20, -15, 14, -20, 9, -26, 67, 32, 29, 27, 24, 21, 18, 15, 13, 10, 39,
        36, 33, 30, 28, 25, 22, 19, 16, 14, 11, 8, 5, 2, -1, -3, -6, 23, 20, 17, 15,
        12, 9, 38, 35, 33, 30, 27, 24, 21, 18, 16, 13, 10, 7, 4, 2, -1, -4, 25, 22,
        19, 17, 14, 11, 8, 5, 3, 0, -3, -6, 23, 20, 18, 15, 12, 9, 6, 4, 1, -2, -5,
        -8, -10, 19, 16, 13, 10, 7, 5, 2, -1, -4, -7, -9, -12, 17, 16, 13, 8, 7, 3, 0,
        -3, -7, -8, -13, -16, -17, -20, -27, -29, -32, -35, -34, 27, 25, 22, 19, 16,
        13, 10, 8, 5, 2, -1, -4, -6, -9, -12, -15, -18, -20, -23, -26, -29, -32, -35,
        -37, -40, 21, 18, 15, 13, 10, 7, 4, 1, -2, -4, -7, -10, -13, -16, -18, -21,
        -24, -27, -30, -33, -35, -38, -41, -44, -47, 15, 12, 9, 6, 3, 1, -2, -5, -8,
        -11, -14, -16, -19, -22, -25, -28, -30, -33, -36, -39, -42, -45, -47, -50,
        -53, 8, 5, 3, 32, -3, 26, -9, 20, -14, 15, -20, 9, -26 >>) @@
    (105 :> <<
        13, 26, -25, -11, 2, -17, -3, -22, 23, 37, 18, 31, 13, -6, 7, -12, 2, -17, 28,
        42, 23, 36, 18, 31, 12, 26, 7, -12, 2, -17, -4, -23, -9, -28, -15, 31, 12, 25,
        7, -12, 1, 47, 28, 41, 23, 36, 17, 30, 12, 25, 6, -12, 1, -2, -4, -7, -10, 20,
        17, 14, 12, 9, 6, 3, 1, -2, -5, -7, -10, 19, 17, 14, 11, 9, 6, 3, 1, -2, -5,
        -8, -10, -13, 16, 14, 11, 8, 6, 3, 0, -2, -5, -8, -10, -13, 16, 13, 11, 8, 5,
        3, 0, -3, -5, -8, -11, -13, -16, -19, -22, -24, -27, -30, -32, 29, 26, 24, 21,
        18, 16, 13, 10, 8, 5, 2, -1, -3, -6, -9, -11, -14, -17, -19, -22, -25, -27,
        -30, -33, -35, 26, 23, 20, 18, 15, 12, 10, 7, 4, 2, -1, 12, -6, -25, -12, -30,
        -17, -36, -23, -41, -28, -47, -33, -52, -39, 39, 20, 33, 15, 28, 9, 23, 4, 17,
        -2, 12, -7, -26, -12, -31, -18, -36, -23, -42, -28, -47, -34, -52, -39, -58,
        19, 33, 14, 27, 9, 22, 3, 17, -2, 11, 25, -26, -13 >>) @@
    (100 :> <<
        0, -3, -5, -8, -10, -13, -15, -18, 12, 9, 6, 4, 1, -1, -4, -6, -9, -12, 18,
        15, 13, 10, 8, 5, 3, 0, -3, -5, -8, -10, -13, -15, -18, -20, -23, 6, 4, 1, -1,
        -4, -6, 23, 20, 18, 15, 13, 10, 8, 5, 3, 0, -3, -5, -8, -10, -13, -15, 14, 12,
        9, 6, 4, 1, -1, -4, -6, -9, -12, -14, 15, 13, 10, 8, 5, 3, 0, -3, -5, -8, -10,
        -13, -15, 14, 12, 9, 6, 4, 1, -1, -4, -6, -9, -12, -14, 15, 13, 10, 8, 5, 3,
        0, -3, -5, -8, -10, -13, -15, -18, -20, -23, -26, -28, -31, 31, 28, 26, 23,
        20, 18, 15, 13, 10, 8, 5, 3, 0, -3, -5, -8, -10, -13, -15, -18, -20, -23, -26,
        -28, -31, 31, 28, 26, 23, 20, 18, 15, 13, 10, 8, 5, 3, 0, -3, -5, -8, -10,
        -13, -15, -18, -20, -23, -26, -28, -31, 31, 28, 26, 23, 20, 18, 15, 13, 10, 8,
        5, 3, 0, -3, -5, -8, -10, -13, -15, -18, -20, -23, -26, -28, -31, 31, 28, 26,
        23, 20, 18, 15, 13, 10, 8, 5, 3, 0 >>)

FloatError(c) == FloatErrorTable[TypeBoost(c.type)][c.distance + 1]

\* Room for the error between two exact scores.
FloatScale == 256

\* rerank_score of a chunk: the double (1.0 - distance) * type_boost, written
\* as its exact part and its rounding error in one integer.  The order and the
\* equality of these integers are the order and the equality of the doubles.
RerankScore(c) == ExactScore(c) * FloatScale + FloatError(c)

\* _rerank_chunks with a sort that puts the later of two equal chunks first.
rerank_chunks_unstable(chunks) ==
    LET Before(j, i) ==
            \/ RerankScore(chunks[j]) > RerankScore(chunks[i])
            \/ RerankScore(chunks[j]) = RerankScore(chunks[i]) /\ j > i
        Place(i) == 1 + Cardinality({j \in 1..Len(chunks) : Before(j, i)})
    IN  [p \in 1..Len(chunks) |-> chunks[CHOOSE i \in 1..Len(chunks) : Place(i) = p]]

\* _rerank_chunks that keeps only the chunks whose score is positive.
rerank_chunks_positive_only(chunks) ==
    LET Before(j, i) ==
            \/ RerankScore(chunks[j]) > RerankScore(chunks[i])
            \/ RerankScore(chunks[j]) = RerankScore(chunks[i]) /\ j < i
        Place(i) == 1 + Cardinality({j \in 1..Len(chunks) : Before(j, i)})
        sorted == [p \in 1..Len(chunks) |-> chunks[CHOOSE i \in 1..Len(chunks) : Place(i) = p]]
    IN  SelectSeq(sorted, LAMBDA c : RerankScore(c) > 0)

\* RAGEngine._rerank_chunks: chunks.sort(key=rerank_score, reverse=True), a
\* stable sort: the place of chunk i is 1 + the number of chunks that go before it.
rerank_chunks(chunks) ==
    LET Before(j, i) ==
            \/ RerankScore(chunks[j]) > RerankScore(chunks[i])
            \/ RerankScore(chunks[j]) = RerankScore(chunks[i]) /\ j < i
        Place(i) == 1 + Cardinality({j \in 1..Len(chunks) : Before(j, i)})
    IN  [p \in 1..Len(chunks) |-> chunks[CHOOSE i \in 1..Len(chunks) : Place(i) = p]]

\* seq[:n]
FirstN(seq, n) == IF Len(seq) <= n THEN seq ELSE SubSeq(seq, 1, n)

MaxChunks == 8
MaxSources == 5

\* _build_context with the cap of _format_sources.
build_context_five(chunks) ==
    LET top == FirstN(chunks, MaxSources)
    IN  [i \in 1..Len(top) |-> [source |-> i, type |-> top[i].type, chunk |-> top[i].id]]

\* RAGEngine._build_context: the blocks of the context, each with the numbers
\* of its "[Source i - type]" header and the chunk whose text follows it.
build_context(chunks) ==
    LET top == FirstN(chunks, MaxChunks)
    IN  [i \in 1..Len(top) |-> [source |-> i, type |-> top[i].type, chunk |-> top[i].id]]

\* RAGEngine._format_sources: chunk_id, chunk_type and relevance_score of the
\* sources.
format_sources(chunks) ==
    LET top == FirstN(chunks, MaxSources)
    IN  [i \in 1..Len(top) |->
            [chunk_id |-> top[i].id, chunk_type |-> top[i].type,
             relevance_score |-> RerankScore(top[i])]]

\* The keyword lists of _classify_query, as patterns over words.
forecast_words == <<
    <<W({"predict", "forecast", "future", "next"})>>, <<W({"will"}), W(BeAhead)>> >>
trend_words == << <<W({"trend", "trends", "trending", "pattern", "direction"})>> >>
correlation_words == << <<W({"correlate", "correlated", "correlation", "relationship", "related"})>> >>
anomaly_words == << <<W({"anomaly", "unusual", "outlier", "spike", "drop"})>> >>

\* _classify_query with the trend keywords tested before the forecast keywords.
classify_query_trend_first(q) ==
    LET query_lower == LowerWords(q.words)
    IN  IF SearchAny(trend_words, query_lower) THEN "trend"
        ELSE IF SearchAny(forecast_words, query_lower) THEN "forecast"
        ELSE IF SearchAny(correlation_words, query_lower) THEN "correlation"
        ELSE IF SearchAny(anomaly_words, query_lower) THEN "anomaly"
        ELSE "historical"

\* RAGEngine._classify_query
classify_query(q) ==
    LET query_lower == LowerWords(q.words)
    IN  IF SearchAny(forecast_words, query_lower) THEN "forecast"
        ELSE IF SearchAny(trend_words, query_lower) THEN "trend"
        ELSE IF SearchAny(correlation_words, query_lower) THEN "correlation"
        ELSE IF SearchAny(anomaly_words, query_lower) THEN "anomaly"
        ELSE "historical"

\* embedding_service.query_similar_chunks raised.
RetrievalFails == [ok |-> FALSE, chunks |-> <<>>]
\* embedding_service.query_similar_chunks returned these chunks.
Retrieved(chunks) == [ok |-> TRUE, chunks |-> chunks]
\* llm_client.generate_response raised.
GenerationFails == [ok |-> FALSE, len |-> 0]
\* llm_client.generate_response returned a text of n characters.
Generated(n) == [ok |-> TRUE, len |-> n]

DefaultMaxResponseTokens == 2000
\* len("\n\n[Response truncated due to size limits]")
TruncationNoticeLen == 41

\* validate_response_size that refuses a response of exactly the limit.
validate_response_size_inclusive(n) == ~(n >= 4 * DefaultMaxResponseTokens)

\* SecurityGuard.validate_response_size, for a response of n characters:
\* estimated_tokens = n / 4 > max_tokens, as n > 4 * max_tokens.
validate_response_size(n) == ~(n > 4 * DefaultMaxResponseTokens)

\* The length of the response RAGEngine.query returns for a generated text of n
\* characters: response[:max_response_tokens * 4] + the notice when too large.
guarded_response_len(n) ==
    IF validate_response_size(n) THEN n
    ELSE (IF n <= DefaultMaxResponseTokens * 4 THEN n ELSE DefaultMaxResponseTokens * 4)
         + TruncationNoticeLen

\* What the retriever and the generator answer to a request when they are
\* called; NoAnswers when the call is not made through RAGEngine.query.
NoAnswers == [retrieval |-> RetrievalFails, generation |-> GenerationFails]

\* No dict: query has not returned one (it was not called, or an exception
\* left it).
NoResult ==
    [raised |-> FALSE, blocked |-> FALSE, sources |-> <<>>, context |-> <<>>,
     response_len |-> 0, notice |-> FALSE, query_type |-> None, warning |-> None]

\* len(reason) of the reasons validate_query denies with.
ReasonLen ==
    (ReasonBlocked :> 48) @@
    (ReasonTooShort :> 38) @@
    (ReasonTooLong :> 40) @@
    (ReasonInjection :> 74) @@
    (ReasonSQL :> 37) @@
    (ReasonCode :> 38) @@
    (ReasonSensitive :> 43) @@
    (ReasonDataTheft :> 124) @@
    (ReasonBulk :> 164) @@
    (ReasonRate :> 44)

\* len("Query rejected: ")
RejectionPrefixLen == 16

\* The dict RAGEngine.query returns for a query that validate_query denied:
\* 'response' is f"Query rejected: {reason}".
Rejected(reason) ==
    [raised |-> FALSE, blocked |-> TRUE, sources |-> <<>>, context |-> <<>>,
     response_len |-> RejectionPrefixLen + ReasonLen[reason], notice |-> FALSE,
     query_type |-> "blocked", warning |-> None]

\* RAGEngine.query without the try/except of _retrieve_chunks: a failure of the
\* retriever leaves query as an exception.
rag_query_retrieval_aborts(q, r, retrieval, generation) ==
    LET reranked == rerank_chunks(retrieval.chunks)
    IN  IF r.outcome = "raise" THEN
            [trace |-> <<"validate_query">>, result |-> [NoResult EXCEPT !.raised = TRUE]]
        ELSE IF r.outcome = "deny" THEN
            [trace |-> <<"validate_query">>,
             result |-> Rejected(r.reason)]
        ELSE IF ~retrieval.ok THEN
            [trace |-> <<"validate_query", "query_similar_chunks">>,
             result |-> [NoResult EXCEPT !.raised = TRUE]]
        ELSE IF ~generation.ok THEN
            [trace |-> <<"validate_query", "query_similar_chunks", "generate_response">>,
             result |-> [NoResult EXCEPT !.raised = TRUE]]
        ELSE
            [trace |-> <<"validate_query", "query_similar_chunks", "generate_response">>,
             result |-> [raised |-> FALSE, blocked |-> FALSE,
                         sources |-> format_sources(reranked),
                         context |-> build_context(reranked),
                         response_len |-> guarded_response_len(generation.len),
                         notice |-> ~validate_response_size(generation.len),
                         query_type |-> classify_query(q),
                         warning |-> r.warning]]

\* RAGEngine.query with the retrieval moved before the test of the validation.
rag_query_retrieve_first(q, r, retrieval, generation) ==
    LET retrieved == IF retrieval.ok THEN retrieval.chunks ELSE <<>>
        reranked == rerank_chunks(retrieved)
    IN  IF r.outcome = "raise" THEN
            [trace |-> <<"validate_query">>, result |-> [NoResult EXCEPT !.raised = TRUE]]
        ELSE IF r.outcome = "deny" THEN
            [trace |-> <<"validate_query", "query_similar_chunks">>,
             result |-> Rejected(r.reason)]
        ELSE IF ~generation.ok THEN
            [trace |-> <<"validate_query", "query_similar_chunks", "generate_response">>,
             result |-> [NoResult EXCEPT !.raised = TRUE]]
        ELSE
            [trace |-> <<"validate_query", "query_similar_chunks", "generate_response">>,
             result |-> [raised |-> FALSE, blocked |-> FALSE,
                         sources |-> format_sources(reranked),
                         context |-> build_context(reranked),
                         response_len |-> guarded_response_len(generation.len),
                         notice |-> ~validate_response_size(generation.len),
                         query_type |-> classify_query(q),
                         warning |-> r.warning]]

\* RAGEngine.query that calls a failing generator a second time and then
\* answers without a text.
rag_query_generation_retried(q, r, retrieval, generation) ==
    LET retrieved == IF retrieval.ok THEN retrieval.chunks ELSE <<>>
        reranked == rerank_chunks(retrieved)
    IN  IF r.outcome = "raise" THEN
            [trace |-> <<"validate_query">>, result |-> [NoResult EXCEPT !.raised = TRUE]]
        ELSE IF r.outcome = "deny" THEN
            [trace |-> <<"validate_query">>,
             result |-> Rejected(r.reason)]
        ELSE IF ~generation.ok THEN
            [trace |-> <<"validate_query", "query_similar_chunks", "generate_response",
                         "generate_response">>,
             result |-> [NoResult EXCEPT !.query_type = classify_query(q)]]
        ELSE
            [trace |-> <<"validate_query", "query_similar_chunks", "generate_response">>,
             result |-> [raised |-> FALSE, blocked |-> FALSE,
                         sources |-> format_sources(reranked),
                         context |-> build_context(reranked),
                         response_len |-> guarded_response_len(generation.len),
                         notice |-> ~validate_response_size(generation.len),
                         query_type |-> classify_query(q),
                         warning |-> r.warning]]

\* RAGEngine.query once validate_query has ended as r: the collaborators called,
\* in order, and the result (raised: an exception left query).
rag_query(q, r, retrieval, generation) ==
    LET retrieved == IF retrieval.ok THEN retrieval.chunks ELSE <<>>
        reranked == rerank_chunks(retrieved)
    IN  IF r.outcome = "raise" THEN
            [trace |-> <<"validate_query">>, result |-> [NoResult EXCEPT !.raised = TRUE]]
        ELSE IF r.outcome = "deny" THEN
            [trace |-> <<"validate_query">>,
             result |-> Rejected(r.reason)]
        ELSE IF ~generation.ok THEN
            [trace |-> <<"validate_query", "query_similar_chunks", "generate_response">>,
             result |-> [NoResult EXCEPT !.raised = TRUE]]
        ELSE
            [trace |-> <<"validate_query", "query_similar_chunks", "generate_response">>,
             result |-> [raised |-> FALSE, blocked |-> FALSE,
                         sources |-> format_sources(reranked),
                         context |-> build_context(reranked),
                         response_len |-> guarded_response_len(generation.len),
                         notice |-> ~validate_response_size(generation.len),
                         query_type |-> classify_query(q),
                         warning |-> r.warning]]

(***************************************************************************)
(* The state                                                               *)
(***************************************************************************)
VARIABLES
    settings,        \* SecurityGuard.settings
    now,             \* what datetime.now() returns, in seconds
    query_history,   \* SecurityGuard.query_history: user key -> sequence of (query, ts)
    blocked_users,   \* SecurityGuard.blocked_users: user key -> expiry, for the keys in it
    policy_denials,  \* history: per user key, the denials by the injection, SQL,
                     \* code-execution, data-theft and bulk-extraction checks so far
    last,            \* history: the last call that ran alone, its input and its outcome
    admitted,        \* history: per user key, the times of the calls that were allowed
    conc             \* the two calls that run concurrently in threads, and the
                     \* state they started from

vars == <<settings, now, query_history, blocked_users, policy_denials, last, admitted, conc>>

\* The most denials policy_denials tells apart: it stops counting there.
MaxDenials == 3
\* The longest log a call of the model may produce.
MaxLog == 3

\* A deployment with lower limits than the defaults (MAX_QUERIES_PER_MINUTE,
\* MAX_QUERIES_PER_HOUR in the environment), to reach the limits with short logs.
SmallPerMinute == 2
SmallPerHour == 3
SmallSettings ==
    [max_queries_per_minute |-> SmallPerMinute,
     max_queries_per_hour |-> SmallPerHour,
     rate_limit_enabled |-> TRUE]

\* The checks whose denial is a policy violation (they call _record_violation).
PolicyChecks == {"injection", "sql", "code", "data_theft", "bulk"}

NoCall ==
    [op |-> "none", key |-> None, query |-> NoneQuery, time |-> 0, outcome |-> "none",
     reason |-> None, warning |-> None, check |-> "none", entry |-> "none", fails |-> {},
     trace |-> <<>>, result |-> NoResult, answers |-> NoAnswers]

\* The threads that call validate_query concurrently.
Threads == {"t1", "t2"}
\* A thread that has not called yet.
\* held tells which list object the thread has fetched from query_history and
\* still works on: "none", "live" (the list that is in query_history now) or
\* "old" (a list that has been replaced since; list holds its entries).
IdleThread ==
    [pc |-> "idle", query |-> NoneQuery, outcome |-> "none", reason |-> None, slice |-> <<>>,
     held |-> "none", list |-> <<>>]
\* No thread has called: blocked0 and log0 are blocked_users and the user's log
\* as the first concurrent call finds them.
NoThreads == [blocked0 |-> <<>>, log0 |-> <<>>, th |-> [t \in Threads |-> IdleThread]]

\* The state after SecurityGuard.__init__, for every configuration of Configs.
InitWith(Configs) ==
    /\ settings \in Configs
    /\ now = 0
    /\ query_history = [k \in UserKeys |-> <<>>]
    /\ blocked_users = <<>>
    /\ policy_denials = [k \in UserKeys |-> 0]
    /\ last = NoCall
    /\ admitted = [k \in UserKeys |-> <<>>]
    /\ conc = NoThreads

\* Time passes: the clock reads t from now on.
Tick(t) ==
    /\ t > now
    /\ now' = t
    /\ UNCHANGED <<settings, query_history, blocked_users, policy_denials, last, admitted, conc>>

\* policy_denials after a call that ended as r.
CountDenial(key, r) ==
    IF r.outcome = "deny" /\ r.check \in PolicyChecks /\ policy_denials[key] < MaxDenials
    THEN [policy_denials EXCEPT ![key] = @ + 1]
    ELSE policy_denials

\* The user's block entry as a call finds it: "none", "active" (now is before its
\* expiry) or "expired".
EntryState(key) ==
    IF key \notin DOMAIN blocked_users THEN "none"
    ELSE IF now < blocked_users[key] THEN "active"
    ELSE "expired"

\* The checks that a str query q of this user fails in the current state, each
\* taken on its own.
FailingChecks(q, key) ==
    IF q.type # "str" THEN {}
    ELSE LET v == PatternVerdicts[q]
             log == query_history[key]
         IN  {c \in {"block"} : EntryState(key) = "active"}
             \cup {c \in {"length"} : is_valid_query_length(q) # "OK"}
             \cup {c \in {"injection"} : v.injection}
             \cup {c \in {"sql"} : v.sql}
             \cup {c \in {"code"} : v.code}
             \cup {c \in {"sensitive"} : v.sensitive}
             \cup {c \in {"data_theft"} : v.data_theft}
             \cup {c \in {"bulk"} : detect_bulk_extraction(q, log).is_bulk}
             \cup {c \in {"rate"} : ~check_rate_limit(log, now, settings)}

\* admitted after a call that ended as r.
Admit(key, r) ==
    IF r.outcome = "allow" THEN [admitted EXCEPT ![key] = Append(@, now)] ELSE admitted

\* The effect of a validate_query call that ended as r, made by op; trace and
\* result are those of RAGEngine.query when it made the call.  Only calls that
\* leave at most max_log entries in the log are taken.
ApplyValidation(op, key, q, r, trace, result, answers, max_log) ==
    /\ Len(r.log) <= max_log
    /\ query_history' = [query_history EXCEPT ![key] = r.log]
    /\ blocked_users' = r.blocked
    /\ policy_denials' = CountDenial(key, r)
    /\ last' = [op |-> op, key |-> key, query |-> q, time |-> now, outcome |-> r.outcome,
                reason |-> r.reason, warning |-> r.warning, check |-> r.check,
                entry |-> EntryState(key), fails |-> FailingChecks(q, key),
                trace |-> trace, result |-> result, answers |-> answers]
    /\ admitted' = Admit(key, r)
    /\ UNCHANGED <<settings, now, conc>>

\* A call security_guard.validate_query(q, user_id) that leaves at most max_log
\* entries in the log.
ValidateQueryCallUpTo(user_id, q, max_log) ==
    LET key == hash_user_id(user_id)
    IN  \E r \in {validate_query(q, key, blocked_users, query_history[key], now, settings)} :
            ApplyValidation("validate_query", key, q, r, <<>>, NoResult, NoAnswers, max_log)

\* A call security_guard.validate_query(q, user_id).
ValidateQueryCall(user_id, q) == ValidateQueryCallUpTo(user_id, q, MaxLog)

\* A call rag_engine.query(q, user_id) that leaves at most max_log entries in
\* the log; the retriever answers `retrieval` and the generator `generation`
\* (the length of its text) if they are called.
RagQueryCallUpTo(user_id, q, retrieval, generation, max_log) ==
    LET key == hash_user_id(user_id)
    IN  \E r \in {validate_query(q, key, blocked_users, query_history[key], now, settings)} :
        \E out \in {rag_query(q, r, retrieval, generation)} :
            ApplyValidation("query", key, q, r, out.trace, out.result,
                            [retrieval |-> retrieval, generation |-> generation], max_log)

\* A call rag_engine.query(q, user_id).
RagQueryCall(user_id, q, retrieval, generation) ==
    RagQueryCallUpTo(user_id, q, retrieval, generation, MaxLog)

\* The retrieval of the scoring scenario: distances 0.1, 0.3, 0.2.
ScenarioChunks ==
    <<Chunk("c1", "daily", 10), Chunk("c2", "country_summary", 30), Chunk("c3", "monthly", 20)>>
\* What the retriever and the generator answer to one request: the generator
\* returns a short text or the text of test_response_size_validation.
Collaborators ==
    {<<RetrievalFails, Generated(51)>>,
     <<Retrieved(ScenarioChunks), GenerationFails>>,
     <<Retrieved(ScenarioChunks), Generated(51)>>,
     <<Retrieved(ScenarioChunks), Generated(10000)>>}

MainUsers == {"alice"}
TickTimes == {30, 60, 3600, 3660}

Init == InitWith({DefaultSettings, SmallSettings})

Next ==
    \/ \E t \in TickTimes : Tick(t)
    \/ \E u \in MainUsers, q \in Queries : ValidateQueryCall(u, q)

Spec == Init /\ [][Next]_vars

(***************************************************************************)
(* The pipeline: requests through RAGEngine.query                          *)
(***************************************************************************)
RagQueries == {QSentiment, QViolation, QYouAreNow, QEnumeration, NoneQuery}
RagTickTimes == {60}

NextRag ==
    \/ \E t \in RagTickTimes : Tick(t)
    \/ \E u \in MainUsers, q \in RagQueries, c \in Collaborators :
          RagQueryCall(u, q, c[1], c[2])

SpecRag == Init /\ [][NextRag]_vars

(***************************************************************************)
(* A burst: one client that never repeats itself, default settings         *)
(***************************************************************************)
\* The longest log a call of the burst may produce.
MaxBurstLog == 12
BurstTickTimes == {29, 30, 60}
BurstUser == "alice"

\* The client's next query: it sends its queries in turn and sends again the one
\* that was refused.
NextDistinctQuery(user_id) == DistinctQuery(Len(admitted[hash_user_id(user_id)]) + 1)

InitBurst == InitWith({DefaultSettings})

NextBurst ==
    \/ \E t \in BurstTickTimes : Tick(t)
    \/ ValidateQueryCallUpTo(BurstUser, NextDistinctQuery(BurstUser), MaxBurstLog)

SpecBurst == InitBurst /\ [][NextBurst]_vars

(***************************************************************************)
(* A steady client under an hourly limit above the length of the log       *)
(***************************************************************************)
\* MAX_QUERIES_PER_HOUR one above the number of entries _record_query keeps.
CapSettings == [DefaultSettings EXCEPT !.max_queries_per_hour = HistoryCap + 1]
\* The seconds between two queries of the steady client.
SteadyStep == 7
\* The queries the steady client sends at most.
SteadyQueries == HistoryCap + 3

InitSteady == InitWith({CapSettings})

\* The steady client sends its next query, one per instant.
SteadyCall ==
    /\ last.op = "none" \/ last.time < now
    /\ ValidateQueryCallUpTo(BurstUser, NextDistinctQuery(BurstUser), HistoryCap)

\* The steady client waits SteadyStep seconds after a query.
SteadyTick ==
    /\ last.op # "none"
    /\ last.time = now
    /\ now < SteadyStep * (SteadyQueries - 1)
    /\ Tick(now + SteadyStep)

NextSteady == SteadyCall \/ SteadyTick

SpecSteady == InitSteady /\ [][NextSteady]_vars

(***************************************************************************)
(* Two concurrent calls for one user                                       *)
(*                                                                         *)
(* SecurityGuard takes no lock and validate_query catches no exception: a  *)
(* thread can be suspended between any two accesses to blocked_users or to *)
(* the user's log.  A concurrent call runs one step per access: the        *)
(* membership test of the block check (line 82), the read of the entry     *)
(* (83-85), its deletion (88), the checks on the query up to the bulk      *)
(* check's read of the log (91-125), the read of _record_violation         *)
(* (265-271), its write (275), the fetch of the list by _check_rate_limit  *)
(* (228-231) and its two counts on that list (234-240, 243-251), the fetch *)
(* of the list by _record_query (256), the append to that list (256), the  *)
(* length test (259), the slice (260) and the store of the slice (260).    *)
(* The store puts a new list object into query_history: a thread that      *)
(* fetched the list before the store goes on with the replaced list.  The  *)
(* last ten entries of a replaced list are those of the list that replaced *)
(* it, so the bulk check and _record_violation, which read the last ten,   *)
(* take one step each.                                                      *)
(***************************************************************************)
ConcUser == "alice"
ConcQueries == {QSentiment, QViolation, QEnumeration, QEmpty}
ConcTickTimes == {60, 3660}

\* A log that has reached the cap of _record_query: a hundred admitted queries
\* of a client that sends a query every step seconds and repeats a query
\* after eleven others.
LogAtCap(step) == [i \in 1..HistoryCap |-> [query |-> DistinctQuery(i), ts |-> step * i]]
\* Under SmallSettings the client spaces its queries twenty minutes apart; an
\* hour after the last one no entry is within the hour.
FullLogStep == 1200
FullLog == LogAtCap(FullLogStep)
FullLogNow == FullLogStep * HistoryCap + OneHour
\* Under CapSettings the steady client fills the log within the hour; a minute
\* after the last query every entry is within the hour and none within the
\* minute.
CapLog == LogAtCap(SteadyStep)
CapLogNow == SteadyStep * HistoryCap + OneMinute

\* No thread has started its call.
AllIdle == \A t \in Threads : conc.th[t].pc = "idle"
\* Every thread has finished its call.
AllDone == \A t \in Threads : conc.th[t].pc = "done"

\* The thread has finished with this outcome.
Finish(t, outcome, reason) ==
    [conc EXCEPT !.th[t].pc = "done", !.th[t].outcome = outcome, !.th[t].reason = reason,
                 !.th[t].held = "none", !.th[t].list = <<>>]

\* The entries of the list object that thread t has fetched.
HeldList(t) ==
    IF conc.th[t].held = "old" THEN conc.th[t].list
    ELSE query_history[hash_user_id(ConcUser)]

\* The thread goes on at pc.
Goto(t, pc) == [conc EXCEPT !.th[t].pc = pc]

\* Line 82 for thread t and query q: hashed_user in self.blocked_users.
BlockedTest(t, q) ==
    LET key == hash_user_id(ConcUser)
        started == IF AllIdle
                   THEN [conc EXCEPT !.blocked0 = blocked_users, !.log0 = query_history[key]]
                   ELSE conc
    IN  /\ conc.th[t].pc = "idle"
        /\ conc' = [started EXCEPT !.th[t].query = q,
                                   !.th[t].pc = IF key \in DOMAIN blocked_users
                                                THEN "read" ELSE "checks"]
        /\ UNCHANGED <<settings, now, query_history, blocked_users, policy_denials, last,
                       admitted>>

\* Lines 83-85 for thread t: the read of the entry, a KeyError when the other
\* thread has deleted it, and the comparison with the clock.
BlockedRead(t) ==
    LET key == hash_user_id(ConcUser)
    IN  /\ conc.th[t].pc = "read"
        /\ conc' = IF key \notin DOMAIN blocked_users THEN Finish(t, "raise", ReasonKeyError)
                   ELSE IF now < blocked_users[key] THEN Finish(t, "deny", ReasonBlocked)
                   ELSE Goto(t, "del")
        /\ UNCHANGED <<settings, now, query_history, blocked_users, policy_denials, last,
                       admitted>>

\* Line 88 for thread t: del self.blocked_users[hashed_user], a KeyError when
\* the other thread has deleted the entry.
BlockedDelete(t) ==
    LET key == hash_user_id(ConcUser)
    IN  /\ conc.th[t].pc = "del"
        /\ blocked_users' = IF key \in DOMAIN blocked_users
                            THEN Unblock(blocked_users, key) ELSE blocked_users
        /\ conc' = IF key \in DOMAIN blocked_users
                   THEN Goto(t, "checks") ELSE Finish(t, "raise", ReasonKeyError)
        /\ UNCHANGED <<settings, now, query_history, policy_denials, last, admitted>>

\* Lines 91-125 for thread t: the checks on the query, the last of them on the
\* log as it is now.  A policy denial goes on to _record_violation.
RunChecks(t) ==
    LET key == hash_user_id(ConcUser)
        r == validate_query(conc.th[t].query, key, <<>>, query_history[key], now,
                            [settings EXCEPT !.rate_limit_enabled = FALSE])
    IN  /\ conc.th[t].pc = "checks"
        /\ conc' = IF r.outcome = "allow" THEN Goto(t, "rate")
                   ELSE IF r.outcome = "deny" /\ r.check \in PolicyChecks
                       THEN [conc EXCEPT !.th[t].pc = "violation", !.th[t].reason = r.reason]
                   ELSE Finish(t, r.outcome, r.reason)
        /\ UNCHANGED <<settings, now, query_history, blocked_users, policy_denials, last,
                       admitted>>

\* Lines 265-271 for thread t: _record_violation counts on the log as it is now.
ViolationCount(t) ==
    LET key == hash_user_id(ConcUser)
    IN  /\ conc.th[t].pc = "violation"
        /\ policy_denials' = IF policy_denials[key] < MaxDenials
                             THEN [policy_denials EXCEPT ![key] = @ + 1]
                             ELSE policy_denials
        /\ conc' = IF record_violation(<<>>, query_history[key], key, now) # <<>>
                   THEN Goto(t, "block")
                   ELSE Finish(t, "deny", conc.th[t].reason)
        /\ UNCHANGED <<settings, now, query_history, blocked_users, last, admitted>>

\* Line 275 for thread t: the block is written, and the denial returned.
ViolationBlock(t) ==
    LET key == hash_user_id(ConcUser)
    IN  /\ conc.th[t].pc = "block"
        /\ blocked_users' = (key :> now + BlockSeconds) @@ blocked_users
        /\ conc' = Finish(t, "deny", conc.th[t].reason)
        /\ UNCHANGED <<settings, now, query_history, policy_denials, last, admitted>>

\* The entries of the log later than seconds before t.
CountSince(log, t, seconds) == Cardinality({i \in 1..Len(log) : log[i].ts > t - seconds})

\* Lines 228-231 for thread t: the flag, and the fetch of the user's list.
RateFetch(t) ==
    /\ conc.th[t].pc = "rate"
    /\ conc' = IF ~settings.rate_limit_enabled THEN Goto(t, "fetch")
               ELSE [conc EXCEPT !.th[t].pc = "minute", !.th[t].held = "live"]
    /\ UNCHANGED <<settings, now, query_history, blocked_users, policy_denials, last,
                   admitted>>

\* Lines 234-240 for thread t: the count of the last minute on the list the
\* thread fetched, as that list is now.
RateMinute(t) ==
    /\ conc.th[t].pc = "minute"
    /\ conc' = IF CountSince(HeldList(t), now, OneMinute) >= settings.max_queries_per_minute
               THEN Finish(t, "deny", ReasonRate)
               ELSE Goto(t, "hour")
    /\ UNCHANGED <<settings, now, query_history, blocked_users, policy_denials, last,
                   admitted>>

\* Lines 243-251 for thread t: the count of the last hour on the list the
\* thread fetched, as that list is now.
RateHour(t) ==
    /\ conc.th[t].pc = "hour"
    /\ conc' = IF CountSince(HeldList(t), now, OneHour) >= settings.max_queries_per_hour
               THEN Finish(t, "deny", ReasonRate)
               ELSE [conc EXCEPT !.th[t].pc = "fetch", !.th[t].held = "none",
                                 !.th[t].list = <<>>]
    /\ UNCHANGED <<settings, now, query_history, blocked_users, policy_denials, last,
                   admitted>>

\* Line 256 for thread t: self.query_history[user_id], the list to append to.
RecordFetch(t) ==
    /\ conc.th[t].pc = "fetch"
    /\ conc' = [conc EXCEPT !.th[t].pc = "append", !.th[t].held = "live"]
    /\ UNCHANGED <<settings, now, query_history, blocked_users, policy_denials, last,
                   admitted>>

\* Line 256 for thread t: the append to the list the thread fetched; an entry
\* appended to a replaced list is not in query_history.
RecordAppend(t) ==
    LET key == hash_user_id(ConcUser)
    IN  /\ conc.th[t].pc = "append"
        /\ query_history' = IF conc.th[t].held = "live"
                            THEN [query_history EXCEPT
                                     ![key] = Append(@, [query |-> conc.th[t].query,
                                                         ts |-> now])]
                            ELSE query_history
        /\ admitted' = [admitted EXCEPT ![key] = Append(@, now)]
        /\ conc' = [conc EXCEPT !.th[t].pc = "len", !.th[t].held = "none",
                                !.th[t].list = <<>>]
        /\ UNCHANGED <<settings, now, blocked_users, policy_denials, last>>

\* Line 259 for thread t: the length test on the list that is in query_history
\* now; the call returns when that list is within the cap.
RecordLen(t) ==
    LET key == hash_user_id(ConcUser)
    IN  /\ conc.th[t].pc = "len"
        /\ conc' = IF Len(query_history[key]) > HistoryCap
                   THEN Goto(t, "slice")
                   ELSE Finish(t, "allow", ReasonOK)
        /\ UNCHANGED <<settings, now, query_history, blocked_users, policy_denials, last,
                       admitted>>

\* Line 260 for thread t: the slice of the list that is in query_history now.
RecordSlice(t) ==
    LET key == hash_user_id(ConcUser)
    IN  /\ conc.th[t].pc = "slice"
        /\ conc' = [conc EXCEPT !.th[t].pc = "store",
                                !.th[t].slice = LastN(query_history[key], HistoryCap)]
        /\ UNCHANGED <<settings, now, query_history, blocked_users, policy_denials, last,
                       admitted>>

\* Line 260 for thread t: the slice replaces the list in query_history, and the
\* call returns; a thread that has fetched the list keeps the replaced one.
RecordStore(t) ==
    LET key == hash_user_id(ConcUser)
        returned == Finish(t, "allow", ReasonOK)
    IN  /\ conc.th[t].pc = "store"
        /\ query_history' = [query_history EXCEPT ![key] = conc.th[t].slice]
        /\ conc' = [conc EXCEPT !.th =
                       [u \in Threads |->
                           IF u = t THEN [returned.th[t] EXCEPT !.slice = <<>>]
                           ELSE IF conc.th[u].held = "live"
                               THEN [conc.th[u] EXCEPT !.held = "old",
                                                       !.list = query_history[key]]
                           ELSE conc.th[u]]]
        /\ UNCHANGED <<settings, now, blocked_users, policy_denials, last, admitted>>

\* A guard under cfg whose log for the user has reached the cap, at time t.
InitAtCap(cfg, log, t) ==
    /\ settings = cfg
    /\ now = t
    /\ query_history = [k \in UserKeys |-> IF k = hash_user_id(ConcUser) THEN log ELSE <<>>]
    /\ blocked_users = <<>>
    /\ policy_denials = [k \in UserKeys |-> 0]
    /\ last = NoCall
    /\ admitted = [k \in UserKeys |->
                      IF k = hash_user_id(ConcUser)
                      THEN [i \in 1..Len(log) |-> log[i].ts] ELSE <<>>]
    /\ conc = NoThreads

InitFullLog == InitAtCap(SmallSettings, FullLog, FullLogNow)
InitCapLog == InitAtCap(CapSettings, CapLog, CapLogNow)

InitConc == InitWith({SmallSettings}) \/ InitFullLog \/ InitCapLog

\* Calls run alone until the first thread starts; then the two threads run.
NextConc ==
    \/ \E t \in ConcTickTimes : AllIdle /\ Tick(t)
    \/ \E q \in ConcQueries : AllIdle /\ ValidateQueryCall(ConcUser, q)
    \/ \E t \in Threads, q \in ConcQueries : BlockedTest(t, q)
    \/ \E t \in Threads : BlockedRead(t)
    \/ \E t \in Threads : BlockedDelete(t)
    \/ \E t \in Threads : RunChecks(t)
    \/ \E t \in Threads : ViolationCount(t)
    \/ \E t \in Threads : ViolationBlock(t)
    \/ \E t \in Threads : RateFetch(t)
    \/ \E t \in Threads : RateMinute(t)
    \/ \E t \in Threads : RateHour(t)
    \/ \E t \in Threads : RecordFetch(t)
    \/ \E t \in Threads : RecordAppend(t)
    \/ \E t \in Threads : RecordLen(t)
    \/ \E t \in Threads : RecordSlice(t)
    \/ \E t \in Threads : RecordStore(t)

SpecConc == InitConc /\ [][NextConc]_vars

(***************************************************************************)
(* Two users of one SecurityGuard                                          *)
(***************************************************************************)
TwoUsers == {"alice", "bob"}
TwoUsersQueries == {QViolation, QEnumeration}
TwoUsersTickTimes == {60}

NextTwoUsers ==
    \/ \E t \in TwoUsersTickTimes : Tick(t)
    \/ \E u \in TwoUsers, q \in TwoUsersQueries : ValidateQueryCall(u, q)

InitTwoUsers == InitWith({SmallSettings})

SpecTwoUsers == InitTwoUsers /\ [][NextTwoUsers]_vars

(***************************************************************************)
(* Queries at the length boundaries                                        *)
(***************************************************************************)
LengthQueries == BoundaryQueries \cup {QEmpty, QTooLong, QViolation, QEnumeration}
LengthTickTimes == {60, 3600}

NextLength ==
    \/ \E t \in LengthTickTimes : Tick(t)
    \/ \E u \in MainUsers, q \in LengthQueries : ValidateQueryCall(u, q)

SpecLength == Init /\ [][NextLength]_vars

(***************************************************************************)
(* Ranking: requests whose retrieval and generated text vary               *)
(***************************************************************************)
\* The ids of the retrieved chunks, by their place in the retrieval result.
ChunkIds == <<"c1", "c2", "c3", "c4", "c5", "c6", "c7", "c8", "c9", "c10">>
\* metadata.get('type', 'unknown')
ChunkTypes == {"country_summary", "anomaly", "monthly", "weekly", "daily", "unknown"}
\* Distances 0.1, 1.0 and 1.5 of the cosine space, whose range is [0, 2].
RankDistances == {10, 100, 150}
ChunkKinds == [type : ChunkTypes, distance : RankDistances]

\* The retrieval result whose i-th chunk is of kind kinds[i].
Retrieval(kinds) == [i \in 1..Len(kinds) |-> Chunk(ChunkIds[i], kinds[i].type, kinds[i].distance)]

\* A retrieval result of n chunks of types in turn, at growing distances.
TypesInTurn == <<"daily", "weekly", "monthly", "anomaly", "country_summary", "unknown">>
LongRetrieval(n) ==
    [i \in 1..n |-> Chunk(ChunkIds[i], TypesInTurn[((i - 1) % Len(TypesInTurn)) + 1], 5 * i)]

\* Pairs of kinds whose exact scores are equal and whose doubles are not:
\* 1.2 * 0.75 and 1.0 * 0.9, 1.2 * 0.77 and 1.1 * 0.84, 1.2 * 0.77 and 1.05 * 0.88.
NearTies ==
    {<<[type |-> "country_summary", distance |-> 25], [type |-> "daily", distance |-> 10]>>,
     <<[type |-> "country_summary", distance |-> 23], [type |-> "monthly", distance |-> 16]>>,
     <<[type |-> "country_summary", distance |-> 23], [type |-> "weekly", distance |-> 12]>>}

\* Every result of one or two chunks, the results of three chunks that tie,
\* the results of 0 to 10 chunks, the near ties in both orders, and the
\* scoring scenario.
RankRetrievals ==
    {Retrieval(<<a>>) : a \in ChunkKinds}
    \cup {Retrieval(<<a, b>>) : a \in ChunkKinds, b \in ChunkKinds}
    \cup {Retrieval(<<a, b, c>>) : a \in [type : {"daily", "unknown", "monthly"}, distance : {100}],
                                   b \in [type : {"daily", "unknown"}, distance : {10, 100}],
                                   c \in [type : {"daily", "monthly"}, distance : {10, 100}]}
    \cup {LongRetrieval(n) : n \in 0..Len(ChunkIds)}
    \cup {Retrieval(<<k[1], k[2]>>) : k \in NearTies}
    \cup {Retrieval(<<k[2], k[1]>>) : k \in NearTies}
    \cup {ScenarioChunks}

\* The lengths of the generated text: around max_response_tokens * 4.
RankTextLengths == {0, 51, 7999, 8000, 8001, 8041, 10000}

\* What the collaborators answer in a ranking request.
RankAnswers ==
    {<<Retrieved(c), Generated(51)>> : c \in RankRetrievals}
    \cup {<<Retrieved(ScenarioChunks), Generated(n)>> : n \in RankTextLengths}

\* The longest log a ranking request may produce.
MaxRankLog == 1

InitRank == InitWith({DefaultSettings})

NextRank ==
    \E c \in RankAnswers :
        RagQueryCallUpTo(BurstUser, NextDistinctQuery(BurstUser), c[1], c[2], MaxRankLog)

SpecRank == InitRank /\ [][NextRank]_vars

(***************************************************************************)
(* Classification: requests whose query names several categories          *)
(***************************************************************************)
\* The longest log a classification request may produce.
MaxClassLog == 2

NextClassify ==
    \E q \in ClassQueries :
        RagQueryCallUpTo(BurstUser, q, Retrieved(ScenarioChunks), Generated(51), MaxClassLog)

SpecClassify == InitRank /\ [][NextClassify]_vars

(***************************************************************************)
(* Repetition: one client that repeats its requests, default settings      *)
(***************************************************************************)
\* The longest log a repeating client may produce.
MaxRepeatLog == 6
RepeatQueries == {QSentiment, QViolation}
RepeatTickTimes == {60}

NextRepeat ==
    \/ \E t \in RepeatTickTimes : Tick(t)
    \/ \E q \in RepeatQueries :
          RagQueryCallUpTo(BurstUser, q, Retrieved(ScenarioChunks), Generated(51), MaxRepeatLog)

SpecRepeat == InitBurst /\ [][NextRepeat]_vars

(***************************************************************************)
(* Denials: every query of the model, low limits, times around a block     *)
(***************************************************************************)
DenialTickTimes == {60, 3600, 3660}

NextDenials ==
    \/ \E t \in DenialTickTimes : Tick(t)
    \/ \E q \in Queries : ValidateQueryCall(BurstUser, q)

SpecDenials == InitTwoUsers /\ [][NextDenials]_vars

(***************************************************************************)
(* Rate limiting switched off or on, low limits                            *)
(***************************************************************************)
\* SmallSettings with RATE_LIMIT_ENABLED=false in the environment.
UnlimitedSettings == [SmallSettings EXCEPT !.rate_limit_enabled = FALSE]

\* The longest log a call may produce when rate limiting may be off.
MaxUnlimitedLog == 5
UnlimitedQueries == {QSentiment, QViolation, QEnumeration}
UnlimitedTickTimes == {60}

InitUnlimited == InitWith({UnlimitedSettings, SmallSettings})

NextUnlimited ==
    \/ \E t \in UnlimitedTickTimes : Tick(t)
    \/ \E q \in UnlimitedQueries : ValidateQueryCallUpTo(BurstUser, q, MaxUnlimitedLog)

SpecUnlimited == InitUnlimited /\ [][NextUnlimited]_vars

(***************************************************************************)
(* Claims                                                                  *)
(***************************************************************************)

\* The last call was made by or through validate_query.
Called == last.op # "none"

\* C1: after a user's third denial by the injection, SQL, code-execution,
\* data-theft or bulk-extraction checks, a block entry for that user exists
\* whose expiry is the time of that denial plus one hour, whatever the log holds.
C1_ThirdDenialBlocks ==
    (/\ Called
     /\ last.outcome = "deny"
     /\ last.check \in PolicyChecks
     /\ policy_denials[last.key] >= ViolationLimit)
    => /\ last.key \in DOMAIN blocked_users
       /\ blocked_users[last.key] = last.time + BlockSeconds

\* C2: a user with fewer than 3 denials by the injection, SQL, code-execution,
\* data-theft and bulk-extraction checks has no block entry.
C2_NoBlockBelowThreeDenials ==
    \A k \in DOMAIN blocked_users : policy_denials[k] >= ViolationLimit

\* C3: a call for a user whose block entry has an expiry later than now is
\* denied with the blocked reason, whatever the query is.
C3_BlockedAlwaysDenied ==
    (Called /\ last.entry = "active")
    => last.outcome = "deny" /\ last.reason = ReasonBlocked

\* C3 happens: an empty query of a blocked user was denied as blocked.
C3_Witness ==
    /\ last.entry = "active"
    /\ last.query = QEmpty
    /\ last.reason = ReasonBlocked

\* C4: a call that finds the user's block entry expired deletes it and decides
\* the query as it would without any block entry; and after a call made at time
\* t no block entry with expiry <= t remains for that user.
C4_ExpiredEntryCleared ==
    /\ [](Called /\ last.key \in DOMAIN blocked_users => blocked_users[last.key] > last.time)
    /\ [][(now' = now /\ last'.entry = "expired") =>
            LET k == last'.key
                e == validate_query(last'.query, k, Unblock(blocked_users, k),
                                    query_history[k], now, settings)
            IN  /\ last'.outcome = e.outcome
                /\ last'.reason = e.reason
                /\ blocked_users' = e.blocked
                /\ query_history'[k] = e.log]_vars

\* C4 happens: a call found an expired entry, decided the query by a later check
\* and left no entry.
C4_Witness ==
    /\ last.entry = "expired"
    /\ last.check = "sensitive"
    /\ last.key \notin DOMAIN blocked_users

\* The order of the checks that C5 states.
ClaimedOrder == <<"block", "length", "injection", "sql", "code", "sensitive",
                  "data_theft", "bulk", "rate">>

\* The reason each check denies with.
ReasonOfCheck(c, q) ==
    CASE c = "block" -> ReasonBlocked
      [] c = "length" -> (IF QueryLen(q) < MinQueryLength THEN ReasonTooShort ELSE ReasonTooLong)
      [] c = "injection" -> ReasonInjection
      [] c = "sql" -> ReasonSQL
      [] c = "code" -> ReasonCode
      [] c = "sensitive" -> ReasonSensitive
      [] c = "data_theft" -> ReasonDataTheft
      [] c = "bulk" -> ReasonBulk
      [] c = "rate" -> ReasonRate

\* C5: the checks run in the order block, length, prompt-injection,
\* SQL-injection, code-execution, sensitive-info, data-theft, bulk-extraction,
\* rate-limit, and a denial carries the reason of the first check in this order
\* that fails; a query that fails none is allowed.
C5_FirstFailingCheckDecides ==
    (Called /\ last.query.type = "str")
    => IF last.fails = {} THEN last.outcome = "allow"
       ELSE LET first == ClaimedOrder[CHOOSE i \in 1..Len(ClaimedOrder) :
                            /\ ClaimedOrder[i] \in last.fails
                            /\ \A j \in 1..(i - 1) : ClaimedOrder[j] \notin last.fails]
            IN  /\ last.outcome = "deny"
                /\ last.check = first
                /\ last.reason = ReasonOfCheck(first, last.query)

\* C5 happens: a query matching an injection pattern and an enumeration pattern
\* was denied with the injection reason.
C5_Witness ==
    /\ last.query = QFromInjection
    /\ {"injection", "bulk"} \subseteq last.fails
    /\ last.reason = ReasonInjection

\* The times of the user's allowed calls before the last call.
AdmittedBefore ==
    LET a == admitted[last.key]
    IN  IF last.outcome = "allow" THEN SubSeq(a, 1, Len(a) - 1) ELSE a

\* The number of the times of `times` in the window of `seconds` that ends at t.
InWindow(times, t, seconds) ==
    Cardinality({i \in 1..Len(times) : times[i] > t - seconds /\ times[i] <= t})

\* C6: for one user whose queries are validated one after another, the allowed
\* queries in any trailing one-minute window never number more than
\* max_queries_per_minute and those in any trailing one-hour window never more
\* than max_queries_per_hour; once that many were allowed in the window, a
\* further query of the user is denied.
C6_RateLimitsHold ==
    /\ \A k \in UserKeys : \A i \in 1..Len(admitted[k]) :
          /\ InWindow(admitted[k], admitted[k][i], OneMinute) <= settings.max_queries_per_minute
          /\ InWindow(admitted[k], admitted[k][i], OneHour) <= settings.max_queries_per_hour
    /\ (/\ Called
        /\ last.query.type = "str"
        /\ \/ InWindow(AdmittedBefore, last.time, OneMinute) >= settings.max_queries_per_minute
           \/ InWindow(AdmittedBefore, last.time, OneHour) >= settings.max_queries_per_hour)
       => last.outcome = "deny"

\* C7: when a user without an active block sends benign, mutually dissimilar
\* queries and one of them is at least the 10th within 30 seconds (nine or more
\* were allowed in the 30 seconds before it), it is denied as bulk extraction.
C7_TenthInBurstDenied ==
    (/\ Called
     /\ last.entry # "active"
     /\ last.query \in DistinctQueries
     /\ InWindow(AdmittedBefore, last.time, RapidFireSeconds) >= RecentWindow - 1)
    => /\ last.outcome = "deny"
       /\ last.reason = ReasonBulk

\* The outcomes of the two calls and the state they leave when thread a runs
\* its whole call before thread b starts.
Serial(a, b) ==
    LET key == hash_user_id(ConcUser)
        ra == validate_query(conc.th[a].query, key, conc.blocked0, conc.log0, now, settings)
        rb == validate_query(conc.th[b].query, key, ra.blocked, ra.log, now, settings)
    IN  [outcome |-> (a :> ra.outcome) @@ (b :> rb.outcome),
         reason |-> (a :> ra.reason) @@ (b :> rb.reason),
         blocked |-> rb.blocked,
         log |-> rb.log]

\* C8: two concurrent validate_query calls for one user key end as some serial
\* order of the two calls ends: the same outcomes and reasons, the same log, the
\* same block map.
C8_ConcurrentCallsSerialize ==
    AllDone =>
        \E a \in Threads : \E b \in Threads \ {a} :
            LET e == Serial(a, b)
            IN  /\ \A t \in Threads : /\ conc.th[t].outcome = e.outcome[t]
                                      /\ conc.th[t].reason = e.reason[t]
                /\ query_history[hash_user_id(ConcUser)] = e.log
                /\ blocked_users = e.blocked

\* C9: when a check inside validate_query fails with an internal error (the
\* checks of a user without an active block raise on a query that is not a
\* str), validate_query returns a denial, and the log is left as it was.
C9_InternalErrorDenies ==
    (/\ Called
     /\ last.query \in MalformedQueries
     /\ last.entry # "active")
    => /\ last.outcome = "deny"
       /\ Len(admitted[last.key]) = Len(AdmittedBefore)

\* The collaborators RAGEngine.query called for the last request.
CalledByQuery == {last.trace[i] : i \in 1..Len(last.trace)}

\* C10: RAGEngine.query calls the retriever and the generator only after
\* validate_query has allowed the query; when validate_query denies, it calls
\* neither, validates once, and returns blocked = True with no sources.
C10_GateBeforeRetrieval ==
    last.op = "query" =>
        /\ last.trace[1] = "validate_query"
        /\ CalledByQuery \cap {"query_similar_chunks", "generate_response"} # {}
              => last.outcome = "allow"
        /\ last.outcome = "deny" =>
              /\ last.trace = <<"validate_query">>
              /\ last.result.blocked
              /\ last.result.sources = <<>>
              /\ ~last.result.raised

\* C10 happens: a request was denied by the injection check and ended as blocked.
C10_Witness ==
    /\ last.op = "query"
    /\ last.query = QYouAreNow
    /\ last.check = "injection"
    /\ last.result.blocked

\* blocked_users without the entries of the other users.
OwnEntry(blocked, key) == [k \in DOMAIN blocked \cap {key} |-> blocked[k]]

\* C11: a validate_query call for one user key leaves the log and the block
\* entry of every other key as they were, and its outcome and reason are those
\* of the same call on a guard that holds only this user's log and block entry.
C11_UsersAreIsolated ==
    [][now' = now =>
        LET k == last'.key
            own == validate_query(last'.query, k, OwnEntry(blocked_users, k),
                                  query_history[k], now, settings)
        IN  /\ \A j \in UserKeys \ {k} :
                  /\ query_history'[j] = query_history[j]
                  /\ OwnEntry(blocked_users', j) = OwnEntry(blocked_users, j)
            /\ last'.outcome = own.outcome
            /\ last'.reason = own.reason]_vars

\* C11 happens: while alice is blocked and her log is at the per-minute limit,
\* a query of bob is allowed.
C11_Witness ==
    /\ hash_user_id("alice") \in DOMAIN blocked_users
    /\ now < blocked_users[hash_user_id("alice")]
    /\ ~check_rate_limit(query_history[hash_user_id("alice")], now, settings)
    /\ last.key = hash_user_id("bob")
    /\ last.outcome = "allow"

\* The timestamps of a log, in its order.
Timestamps(log) == [i \in 1..Len(log) |-> log[i].ts]

\* C12: every user's log has at most 100 entries and holds the most recently
\* allowed queries in the order they were allowed: an allowed call appends its
\* query and, when that makes 101 entries, drops the oldest; a call that is not
\* allowed leaves the log as it was.
C12_LogKeepsLastHundred ==
    /\ [](\A k \in UserKeys :
            /\ Len(query_history[k]) <= HistoryCap
            /\ Timestamps(query_history[k]) = LastN(admitted[k], HistoryCap))
    /\ [][now' = now =>
            LET k == last'.key
                log == query_history[k]
                entry == [query |-> last'.query, ts |-> now]
            IN  query_history'[k] =
                    IF last'.outcome # "allow" THEN log
                    ELSE IF Len(log) < HistoryCap THEN Append(log, entry)
                    ELSE Append(Tail(log), entry)]_vars

\* C12 happens: 102 queries of a user were allowed and the log holds the last 100.
C12_Witness ==
    LET k == hash_user_id(BurstUser)
    IN  /\ Len(admitted[k]) = HistoryCap + 2
        /\ Len(query_history[k]) = HistoryCap
        /\ query_history[k][1].ts = admitted[k][3]

\* C13: when the retriever fails in a request that validate_query allowed,
\* RAGEngine.query goes on with an empty retrieval result: it calls the
\* generator with an empty context and, the generator answering, returns a
\* result that is not blocked and has no sources.
C13_RetrievalFailureRecovered ==
    (/\ last.op = "query"
     /\ last.outcome = "allow"
     /\ ~last.answers.retrieval.ok)
    => /\ last.trace = <<"validate_query", "query_similar_chunks", "generate_response">>
       /\ last.answers.generation.ok =>
             /\ ~last.result.raised
             /\ ~last.result.blocked
             /\ last.result.sources = <<>>
             /\ last.result.context = <<>>
             /\ last.result.response_len = guarded_response_len(last.answers.generation.len)

\* C13 happens: an allowed request whose retrieval failed returned the
\* generator's text.
C13_Witness ==
    /\ last.op = "query"
    /\ last.outcome = "allow"
    /\ ~last.answers.retrieval.ok
    /\ last.answers.generation.ok
    /\ ~last.result.raised
    /\ last.result.response_len > 0

\* The checks whose denial is no policy violation.
NonPolicyChecks == {"length", "sensitive", "rate"}

\* C14 as stated: a denial by the length, sensitive-info or rate-limit check
\* leaves the block map exactly as it was.
C14_NonPolicyDenialKeepsEntry ==
    [][(/\ now' = now
        /\ last'.outcome = "deny"
        /\ last'.check \in NonPolicyChecks)
       => blocked_users' = blocked_users]_vars

\* C14, amended: a denial by the length, sensitive-info or rate-limit check
\* never creates or changes a block entry and leaves the log and the count of
\* policy denials as they were; the only change it makes is that the call has
\* deleted the user's entry when it found it expired.
C14_NonPolicyDenialNeverBlocks ==
    [][(/\ now' = now
        /\ last'.outcome = "deny"
        /\ last'.check \in NonPolicyChecks)
       => /\ blocked_users' = IF last'.entry = "expired"
                              THEN Unblock(blocked_users, last'.key)
                              ELSE blocked_users
          /\ query_history' = query_history
          /\ policy_denials' = policy_denials]_vars

\* C14 happens: a user whose log holds three queries that _record_violation
\* counts is denied by the sensitive-info check and has no block entry.
C14_Witness ==
    /\ last.check = "sensitive"
    /\ last.outcome = "deny"
    /\ record_violation(<<>>, query_history[last.key], last.key, now) # <<>>
    /\ last.key \notin DOMAIN blocked_users

\* C15: for a user without an active block, a query of length 0 is denied as
\* too short and one of length 1001 as too long; queries of length 1 and 1000
\* pass the length check: they are allowed or denied by a later check.
C15_LengthBoundaries ==
    (/\ Called
     /\ last.query.type = "str"
     /\ last.entry # "active")
    => LET n == QueryLen(last.query)
       IN  /\ n = 0 => last.outcome = "deny" /\ last.reason = ReasonTooShort
           /\ n = 1001 => last.outcome = "deny" /\ last.reason = ReasonTooLong
           /\ n \in {1, 1000} =>
                 /\ last.check # "length"
                 /\ last.reason \notin {ReasonTooShort, ReasonTooLong}
                 /\ last.fails = {} => last.outcome = "allow"

\* C15 happens: a benign query of 1000 characters was allowed.
C15_Witness ==
    /\ last.query = QThousand
    /\ QueryLen(last.query) = 1000
    /\ last.outcome = "allow"

\* The last request was allowed and both collaborators answered it.
Answered ==
    /\ last.op = "query"
    /\ last.outcome = "allow"
    /\ last.answers.retrieval.ok
    /\ last.answers.generation.ok

\* The chunks the retriever returned to the last request, in retrieval order.
Retrieval0 == last.answers.retrieval.chunks

\* The place of a chunk in the retrieval result.
PositionOf(id) == CHOOSE i \in 1..Len(ChunkIds) : ChunkIds[i] = id

\* The chunk ids of the sources of the last result, in their order.
SourceIds == [i \in 1..Len(last.result.sources) |-> last.result.sources[i].chunk_id]

\* C16: the reranker is stable and deterministic: chunks with equal rerank
\* score come in their retrieval order, reranking the same retrieval result
\* again gives the order of the result, and reranking the ranked list leaves it
\* as it is.
C16_RerankStable ==
    (Answered /\ Len(Retrieval0) <= MaxSources)
    => LET src == last.result.sources
           again == rerank_chunks(Retrieval0)
       IN  /\ Len(src) = Len(Retrieval0)
           /\ \A a \in 1..Len(src) : \A b \in 1..Len(src) :
                 (a < b /\ src[a].relevance_score = src[b].relevance_score)
                 => PositionOf(src[a].chunk_id) < PositionOf(src[b].chunk_id)
           /\ SourceIds = [i \in 1..Len(again) |-> again[i].id]
           /\ rerank_chunks(again) = again

\* C16 happens: of three chunks the second and third tie above the first and
\* keep their order.
C16_Witness ==
    /\ Answered
    /\ SourceIds = <<"c2", "c3", "c1">>
    /\ last.result.sources[1].relevance_score = last.result.sources[2].relevance_score

\* The rank of a type by its boost, as C17 states it.
ClaimedRank(type) ==
    CASE type = "country_summary" -> 1
      [] type = "anomaly" -> 2
      [] type = "monthly" -> 3
      [] type = "weekly" -> 4
      [] OTHER -> 5

\* C17: two chunks with the same distance, whatever it is, come out ordered by
\* type boost: country_summary before anomaly before monthly before weekly
\* before daily and unknown.
C17_EqualDistanceByBoost ==
    (/\ Answered
     /\ Len(Retrieval0) = 2
     /\ Retrieval0[1].distance = Retrieval0[2].distance)
    => \A a \in 1..2 : \A b \in 1..2 :
          ClaimedRank(Retrieval0[a].type) < ClaimedRank(Retrieval0[b].type)
          => SourceIds = <<Retrieval0[a].id, Retrieval0[b].id>>

\* The boosts as C18 states them, in hundredths.
ClaimedBoost(type) ==
    CASE type = "country_summary" -> 120
      [] type = "anomaly" -> 115
      [] type = "monthly" -> 110
      [] type = "weekly" -> 105
      [] type = "daily" -> 100
      [] type = "unknown" -> 100

\* (1 - distance) * typeBoost of a retrieved chunk, in ten-thousandths.
ClaimedScore(c) == (100 - c.distance) * ClaimedBoost(c.type)

\* A score of the code to the nearest ten-thousandth.
Rounded(score) == (score + FloatScale \div 2) \div FloatScale

\* C18: every chunk gets the score (1 - distance) * typeBoost, up to the
\* rounding of the floating point arithmetic, with the boosts
\* 1.20, 1.15, 1.10, 1.05, 1.00, 1.00; the chunks come out in non-increasing
\* score order, the sources being the chunks of highest score; distances
\* [0.1, 0.3, 0.2] with types [daily, country_summary, monthly] come out as
\* daily (0.90), monthly (0.88), country_summary (0.84).
C18_ScoreAndOrder ==
    Answered
    => LET src == last.result.sources
       IN  /\ \A i \in 1..Len(src) :
                 /\ Rounded(src[i].relevance_score)
                        = ClaimedScore(Retrieval0[PositionOf(src[i].chunk_id)])
                 /\ src[i].chunk_type = Retrieval0[PositionOf(src[i].chunk_id)].type
           /\ \A i \in 1..(Len(src) - 1) : src[i].relevance_score >= src[i + 1].relevance_score
           /\ \A j \in 1..Len(Retrieval0) :
                 \/ ChunkIds[j] \in {SourceIds[i] : i \in 1..Len(src)}
                 \/ ClaimedScore(Retrieval0[j]) <= Rounded(src[Len(src)].relevance_score)
           /\ Retrieval0 = ScenarioChunks =>
                 /\ SourceIds = <<"c1", "c3", "c2">>
                 /\ [i \in 1..3 |-> Rounded(src[i].relevance_score)] = <<9000, 8800, 8400>>

\* C18 happens: the scoring scenario was ranked.
C18_Witness ==
    /\ Answered
    /\ Retrieval0 = ScenarioChunks
    /\ SourceIds = <<"c1", "c3", "c2">>

\* The smaller of two numbers.
Min(a, b) == IF a <= b THEN a ELSE b

\* C19: of n ranked chunks the context holds the first min(n, 8), as blocks
\* headed "[Source i - type]" with i = 1..k in rank order, and the sources are
\* the first min(n, 5) in rank order, each cap applying on its own.
C19_ContextAndSourceCaps ==
    Answered
    => LET ranked == rerank_chunks(Retrieval0)
           n == Len(ranked)
       IN  /\ last.result.context =
                 [i \in 1..Min(n, 8) |->
                     [source |-> i, type |-> ranked[i].type, chunk |-> ranked[i].id]]
           /\ SourceIds = [i \in 1..Min(n, 5) |-> ranked[i].id]

\* C19 happens: of ten chunks eight are in the context and five in the sources.
C19_Witness ==
    /\ Answered
    /\ Len(Retrieval0) = 10
    /\ Len(last.result.context) = 8
    /\ Len(last.result.sources) = 5

\* C20: a generated text of at most max_response_tokens * 4 characters is
\* returned as it is; a longer one is cut to its first max_response_tokens * 4
\* characters and the truncation notice is appended, so the response is never
\* longer than max_response_tokens * 4 characters plus the notice.
C20_ResponseSizeGuard ==
    Answered
    => LET n == last.answers.generation.len
           limit == DefaultMaxResponseTokens * 4
       IN  /\ n <= limit => last.result.response_len = n /\ ~last.result.notice
           /\ n > limit => /\ last.result.response_len = limit + TruncationNoticeLen
                           /\ last.result.notice
           /\ last.result.response_len <= limit + TruncationNoticeLen

\* C20 happens: a text one character over the limit came back cut, with the notice.
C20_Witness ==
    /\ Answered
    /\ last.answers.generation.len = DefaultMaxResponseTokens * 4 + 1
    /\ last.result.notice
    /\ last.result.response_len = DefaultMaxResponseTokens * 4 + TruncationNoticeLen


\* The categories in the priority order of the claim, and their keyword lists.
ClaimedPriority == <<"forecast", "trend", "correlation", "anomaly">>
KeywordsOf(category) ==
    CASE category = "forecast" -> forecast_words
      [] category = "trend" -> trend_words
      [] category = "correlation" -> correlation_words
      [] category = "anomaly" -> anomaly_words
\* The places in ClaimedPriority of the categories whose keywords are in q.
MatchingPlaces(q) ==
    {i \in 1..Len(ClaimedPriority) :
        SearchAny(KeywordsOf(ClaimedPriority[i]), LowerWords(q.words))}
\* The category the claim gives q.
ClaimedCategory(q) ==
    IF MatchingPlaces(q) = {} THEN "historical"
    ELSE ClaimedPriority[CHOOSE i \in MatchingPlaces(q) : \A j \in MatchingPlaces(q) : i <= j]

\* C21: an answered request is classified as the first category, in the order
\* forecast, trend, correlation, anomaly, whose keyword list matches its
\* query, and as historical when none matches; a query with keywords of
\* several categories gets the earliest of them.
C21_ClassifiedByPriority ==
    Answered => last.result.query_type = ClaimedCategory(last.query)

\* An answered request whose query has a keyword of every category, the
\* forecast keyword last, was classified as forecast.
C21_Witness ==
    /\ Answered
    /\ last.query = Str(<<"spike", "correlation", "trend", "forecast">>)
    /\ Cardinality(MatchingPlaces(last.query)) = 4
    /\ last.result.query_type = "forecast"

\* Both the call before and the call of this step were denied by the same check.
SameCheckDeniedTwice ==
    /\ last.outcome = "deny"
    /\ last'.outcome = "deny"
    /\ last'.check = last.check

\* The query is shorter than the minimum length.
BelowMinimum(q) == QueryLen(q) < MinQueryLength

\* C22 as stated: two denied calls that fail the same check return the same
\* reason, whatever the query text and whatever time remains of a block.
C22_ReasonByCheckOnly ==
    [][SameCheckDeniedTwice => last'.reason = last.reason]_vars

\* C22, amended: two denied calls that fail the same check return the same
\* reason, whatever the query text and whatever time remains of a block,
\* except that the length check has one reason for a query that is too short
\* and another for a query that is too long.
C22_ReasonByCheckAndBound ==
    [][(/\ SameCheckDeniedTwice
        /\ last.check = "length" => BelowMinimum(last'.query) = BelowMinimum(last.query))
       => last'.reason = last.reason]_vars

\* C22 happens: a call denied as blocked when less than the hour remained of
\* the block got the reason of every blocked call.
C22_Witness ==
    /\ last.outcome = "deny"
    /\ last.check = "block"
    /\ last.key \in DOMAIN blocked_users
    /\ blocked_users[last.key] - last.time < BlockSeconds
    /\ last.reason = ReasonBlocked

\* C23: the high-frequency rule counts the user's queries in the 30 seconds
\* before the call: when fewer than 10 of the user's logged queries lie in the
\* trailing 30 seconds and the rate limits permit, a benign, dissimilar query
\* of a user without an active block is allowed, also after a burst.
C23_BurstDoesNotLockOut ==
    (/\ Called
     /\ last.entry # "active"
     /\ last.query \in DistinctQueries
     /\ InWindow(AdmittedBefore, last.time, RapidFireSeconds) < RecentWindow
     /\ InWindow(AdmittedBefore, last.time, OneMinute) < settings.max_queries_per_minute
     /\ InWindow(AdmittedBefore, last.time, OneHour) < settings.max_queries_per_hour)
    => last.outcome = "allow"

\* The user's log as the last call found it.
LogBefore ==
    LET log == query_history[last.key]
    IN  IF last.outcome = "allow" THEN SubSeq(log, 1, Len(log) - 1) ELSE log

\* The number of the last 5 logged queries, or of all when fewer are logged,
\* whose similarity with the query of the last call is above 0.8.
SimilarLogged ==
    LET last5 == LastN(LogBefore, SimilarWindow)
    IN  Cardinality({i \in 1..Len(last5) :
            SimilarityAbove(calculate_similarity(last.query, last5[i].query))})

\* C24: a query that passes the checks before the bulk-extraction check is
\* denied as bulk extraction whenever at least 3 of the user's last 5 logged
\* queries, or of all of them when fewer than 5 are logged, are similar to it.
C24_ThreeSimilarDenied ==
    (/\ Called
     /\ last.query.type = "str"
     /\ last.fails \cap {"block", "length", "injection", "sql", "code", "sensitive",
                         "data_theft"} = {}
     /\ SimilarLogged >= SimilarLimit)
    => /\ last.outcome = "deny"
       /\ last.reason = ReasonBulk

\* The ids of a sequence of chunks, as a set.
IdSet(chunks) == {chunks[i].id : i \in 1..Len(chunks)}

\* C25: the ranked list is a permutation of the retrieval result: the same
\* chunks, none dropped and none twice, whatever their scores; and every
\* entry carries its rerank score, which the sources of the response show.
C25_RerankPermutes ==
    Answered
    => LET ranked == rerank_chunks(Retrieval0)
           src == last.result.sources
           ctx == last.result.context
       IN  /\ Len(ranked) = Len(Retrieval0)
           /\ {ranked[i] : i \in 1..Len(ranked)} = {Retrieval0[i] : i \in 1..Len(Retrieval0)}
           /\ Cardinality(IdSet(ranked)) = Len(ranked)
           /\ \A i \in 1..Len(src) :
                 /\ "relevance_score" \in DOMAIN src[i]
                 /\ src[i].relevance_score = RerankScore(ranked[i])
           /\ Len(Retrieval0) <= MaxSources
              => /\ Len(src) = Len(Retrieval0)
                 /\ {src[i].chunk_id : i \in 1..Len(src)} = IdSet(Retrieval0)
           /\ Len(Retrieval0) <= MaxChunks
              => /\ Len(ctx) = Len(Retrieval0)
                 /\ {ctx[i].chunk : i \in 1..Len(ctx)} = IdSet(Retrieval0)

\* C25 happens: of two chunks the first has a negative score; both are in
\* the sources, exchanged.
C25_Witness ==
    /\ Answered
    /\ Len(Retrieval0) = 2
    /\ RerankScore(Retrieval0[1]) < 0
    /\ RerankScore(Retrieval0[2]) > 0
    /\ SourceIds = <<"c2", "c1">>

\* C26: a call that denies leaves the user's log as it was, whichever check
\* denies, and the log changes only in a call that allows: denied queries are
\* in none of the windows of the rate-limit and bulk-extraction checks.
C26_DenialLeavesLog ==
    /\ [][(now' = now /\ last'.outcome = "deny")
          => query_history' = query_history /\ admitted' = admitted]_vars
    /\ [][query_history' # query_history => last'.outcome = "allow"]_vars

\* C26 happens: a query denied by the injection check of a user with a log
\* left the log with the allowed queries only.
C26_Witness ==
    /\ last.outcome = "deny"
    /\ last.check = "injection"
    /\ query_history[last.key] # <<>>
    /\ Timestamps(query_history[last.key]) = admitted[last.key]

\* C27: a call that finds the user blocked leaves the block map as it was; a
\* block entry is written or changed only by a call of that user that found
\* no active block, and its expiry is then one hour after the call.
C27_BlockedCallsKeepExpiry ==
    /\ [][(now' = now /\ last'.entry = "active") => blocked_users' = blocked_users]_vars
    /\ [][\A k \in DOMAIN blocked_users' :
            (k \notin DOMAIN blocked_users \/ blocked_users'[k] # blocked_users[k])
            => /\ last'.key = k
               /\ last'.entry # "active"
               /\ last'.time = now
               /\ blocked_users'[k] = now + BlockSeconds]_vars

\* C27 happens: a query that a policy check would deny arrived later than the
\* block was set, and the expiry is still one hour after the block was set.
C27_Witness ==
    /\ last.entry = "active"
    /\ last.query = QEnumeration
    /\ last.key \in DOMAIN blocked_users
    /\ blocked_users[last.key] < last.time + BlockSeconds

\* The last request was allowed by the gate and its generator call failed.
GenerationFailed ==
    /\ last.op = "query"
    /\ last.outcome = "allow"
    /\ ~last.answers.generation.ok

\* C28: when the generator fails after the gate allowed the query, the
\* failure leaves RAGEngine.query, the generator was called once, and the
\* query is the newest entry of the user's log and counts as an allowed query.
C28_GenerationFailurePropagates ==
    GenerationFailed
    => LET log == query_history[last.key]
           times == admitted[last.key]
       IN  /\ last.result.raised
           /\ Cardinality({i \in 1..Len(last.trace) : last.trace[i] = "generate_response"}) = 1
           /\ log # <<>>
           /\ log[Len(log)] = [query |-> last.query, ts |-> last.time]
           /\ times # <<>>
           /\ times[Len(times)] = last.time

\* C28 happens: the second allowed request of a user failed in the generator
\* and the log holds both queries.
C28_Witness ==
    /\ GenerationFailed
    /\ last.result.raised
    /\ Len(query_history[last.key]) = 2
    /\ last.trace = <<"validate_query", "query_similar_chunks", "generate_response">>

\* C29: the warning of validate_query is None in every outcome, and so is the
\* warning of the pipeline's response: no denied and no allowed query carries
\* a warning text.
C29_WarningAlwaysNone ==
    Called
    => /\ last.warning = None
       /\ last.warning \notin {WarnSimilar, WarnFrequency}
       /\ last.op = "query" => last.result.warning = None

\* C29 happens: a request whose query is the same as the four queries of the
\* user's log was allowed and answered without a warning.
C29_Witness ==
    /\ Answered
    /\ SimilarLogged = 4
    /\ last.warning = None
    /\ last.result.warning = None

\* C30: when rate_limit_enabled is false no call is denied by the rate-limit
\* check, and a query that passes the block, length, pattern and
\* bulk-extraction checks is allowed and logged, however many queries of the
\* user were allowed in the last minute or hour.
C30_DisabledRateLimitNeverDenies ==
    (Called /\ ~settings.rate_limit_enabled /\ last.query.type = "str")
    => /\ last.check # "rate"
       /\ last.reason # ReasonRate
       /\ last.fails \ {"rate"} = {}
          => LET log == query_history[last.key]
             IN  /\ last.outcome = "allow"
                 /\ log # <<>>
                 /\ log[Len(log)] = [query |-> last.query, ts |-> last.time]

\* C30 happens: with rate limiting off a query was allowed although the
\* per-minute and the per-hour limit had been reached.
C30_Witness ==
    /\ Called
    /\ ~settings.rate_limit_enabled
    /\ last.outcome = "allow"
    /\ InWindow(AdmittedBefore, last.time, OneMinute) >= settings.max_queries_per_minute
    /\ InWindow(AdmittedBefore, last.time, OneHour) >= settings.max_queries_per_hour

=============================================================================
